---- MODULE Spec2Model ----
(***************************************************************************)
(* Broker Gateway Adapter of TradingHub: the volume-probing MT5 adapter    *)
(* (class MT5ApiService, src/unnamed/part_002).                            *)
(*                                                                         *)
(* The adapter is an object with one mutable cell, the session token,      *)
(* mirrored in localStorage under 'mt5_token'.  Every operation is an      *)
(* async method: it runs atomically from one await to the next, and is     *)
(* suspended only while a bridge request is in flight.  The bridge is the  *)
(* environment: every answer (status, body, exception) is chosen           *)
(* nondeterministically from small sets.                                   *)
(*                                                                         *)
(* JavaScript numbers that carry volumes are modelled as non-negative      *)
(* decimals with nine fractional digits, kept in two limbs so that the     *)
(* tolerance 1e-6 and the limit 1,000,000 of the source keep their values. *)
(* JavaScript strings are TLA+ strings; String.prototype.includes and      *)
(* toLowerCase are computed character by character.                        *)
(***************************************************************************)
EXTENDS Integers, Sequences, FiniteSets, TLC

\* an absent value (undefined, or null where the source tests for it)
None == [t |-> "none"]

(***************************************************************************)
(* Strings                                                                 *)
(***************************************************************************)

\* String.prototype.includes
Includes(s, p) ==
    \E i \in 1..(Len(s) - Len(p) + 1) : SubSeq(s, i, i + Len(p) - 1) = p

RECURSIVE ToLowerCase(_)
ToLowerCase(s) ==
    LET
        \* one character of String.prototype.toLowerCase
        LowerChar(ch) ==
            CASE ch = "A" -> "a" [] ch = "B" -> "b" [] ch = "C" -> "c" [] ch = "D" -> "d"
              [] ch = "E" -> "e" [] ch = "F" -> "f" [] ch = "G" -> "g" [] ch = "H" -> "h"
              [] ch = "I" -> "i" [] ch = "J" -> "j" [] ch = "K" -> "k" [] ch = "L" -> "l"
              [] ch = "M" -> "m" [] ch = "N" -> "n" [] ch = "O" -> "o" [] ch = "P" -> "p"
              [] ch = "Q" -> "q" [] ch = "R" -> "r" [] ch = "S" -> "s" [] ch = "T" -> "t"
              [] ch = "U" -> "u" [] ch = "V" -> "v" [] ch = "W" -> "w" [] ch = "X" -> "x"
              [] ch = "Y" -> "y" [] ch = "Z" -> "z"
              [] OTHER -> ch
    IN
    IF Len(s) = 0 THEN ""
    ELSE LowerChar(SubSeq(s, 1, 1)) \o ToLowerCase(SubSeq(s, 2, Len(s)))

\* value of a decimal digit character, -1 for any other character
DigitValue(ch) ==
    CASE ch = "0" -> 0 [] ch = "1" -> 1 [] ch = "2" -> 2 [] ch = "3" -> 3
      [] ch = "4" -> 4 [] ch = "5" -> 5 [] ch = "6" -> 6 [] ch = "7" -> 7
      [] ch = "8" -> 8 [] ch = "9" -> 9 [] OTHER -> -1

\* a number value, and the number NaN
JNum(n) == [t |-> "number", v |-> n]
NaN == [t |-> "NaN"]

\* the longest prefix of decimal digits, as a number; NaN when there is none
RECURSIVE DigitPrefix(_, _, _, _)
DigitPrefix(s, acc, seen, sign) ==
    IF Len(s) = 0 \/ DigitValue(SubSeq(s, 1, 1)) < 0
    THEN IF seen THEN JNum(sign * acc) ELSE NaN
    ELSE DigitPrefix(SubSeq(s, 2, Len(s)),
                     acc * 10 + DigitValue(SubSeq(s, 1, 1)), TRUE, sign)

\* parseInt(s, 10) on a string: optional sign, then the digit prefix
ParseIntStr(s) ==
    IF Len(s) > 0 /\ SubSeq(s, 1, 1) = "-"
    THEN DigitPrefix(SubSeq(s, 2, Len(s)), 0, FALSE, -1)
    ELSE DigitPrefix(s, 0, FALSE, 1)

(***************************************************************************)
(* Volumes: decimals  i + f / FracBase  with 0 <= f < FracBase             *)
(***************************************************************************)

FracBase == 1000000000
\* 0.000001, the tolerance of the duplicate tests, in units of 1/FracBase
Tolerance == 1000
\* the upper limit of a scaled candidate
VolumeLimit == 1000000

Vol(i, f) == [i |-> i, f |-> f]
Zero == Vol(0, 0)

IsPositive(v) == v.i > 0 \/ v.f > 0

\* Math.abs(v1 - v2) < 0.000001
Near(v1, v2) ==
    LET \* a < b
        VolLess(a, b) == a.i < b.i \/ (a.i = b.i /\ a.f < b.f)
        lo == IF VolLess(v1, v2) THEN v1 ELSE v2
        hi == IF VolLess(v1, v2) THEN v2 ELSE v1
    IN  \/ hi.i = lo.i /\ hi.f - lo.f < Tolerance
        \/ hi.i = lo.i + 1 /\ (FracBase - lo.f) + hi.f < Tolerance
\* v < 1000000
BelowLimit(v) == v.i < VolumeLimit

\* v * 10^k for an exponent k in -5..5; once the product has passed the
\* limit it is no longer multiplied (every use compares it to the limit)
RECURSIVE Scale(_, _)
Scale(v, k) ==
    LET
        \* x * 10 and x / 10 (digits below 1/FracBase are dropped, as a double
        \* drops the digits below its precision)
        Times10(x) == Vol(x.i * 10 + (x.f \div (FracBase \div 10)),
                          (x.f % (FracBase \div 10)) * 10)
        Over10(x) == Vol(x.i \div 10, (x.i % 10) * (FracBase \div 10) + (x.f \div 10))
    IN
    IF k = 0 \/ (k > 0 /\ ~BelowLimit(v)) THEN v
    ELSE IF k > 0 THEN Scale(Times10(v), k - 1)
    ELSE Scale(Over10(v), k + 1)

(***************************************************************************)
(* JavaScript values of a decoded response body                            *)
(***************************************************************************)

JNull == [t |-> "null"]
JUndefined == [t |-> "undefined"]
JStr(s) == [t |-> "string", v |-> s]
JBool(b) == [t |-> "boolean", v |-> b]
\* an object: a function from its own property names to values
JObj(f) == [t |-> "object", v |-> f]

\* an 'in' test that never finds the property retcode
HasFieldButRetcode(x, k) == k # "retcode" /\ k \in DOMAIN x.v

\* an 'in' test that never finds the property ticket
HasFieldButTicket(x, k) == k # "ticket" /\ k \in DOMAIN x.v

\* 'k' in x, for an object x
HasField(x, k) == k \in DOMAIN x.v
\* x.k, undefined when the property is absent
Field(x, k) == IF HasField(x, k) THEN x.v[k] ELSE JUndefined

\* the truthiness that ||, && and if apply to a value
Truthy(x) ==
    CASE x.t = "null" -> FALSE
      [] x.t = "undefined" -> FALSE
      [] x.t = "NaN" -> FALSE
      [] x.t = "number" -> x.v # 0
      [] x.t = "string" -> x.v # ""
      [] x.t = "boolean" -> x.v
      [] OTHER -> TRUE

\* a || b
OrElse(a, b) == IF Truthy(a) THEN a ELSE b

\* x === n for a number n
StrictEqNum(x, n) == x.t = "number" /\ x.v = n

\* parseInt(x): a number value (integers only in the model) or NaN
ParseInt(x) ==
    CASE x.t = "number" -> x
      [] x.t = "string" -> ParseIntStr(x.v)
      [] OTHER -> NaN

\* the decimal digits of a natural number, and String(n) for an integer
RECURSIVE NatToString(_)
NatToString(n) ==
    LET d == CASE n % 10 = 0 -> "0" [] n % 10 = 1 -> "1" [] n % 10 = 2 -> "2"
               [] n % 10 = 3 -> "3" [] n % 10 = 4 -> "4" [] n % 10 = 5 -> "5"
               [] n % 10 = 6 -> "6" [] n % 10 = 7 -> "7" [] n % 10 = 8 -> "8"
               [] OTHER -> "9"
    IN  IF n < 10 THEN d ELSE NatToString(n \div 10) \o d
IntToString(n) == IF n < 0 THEN "-" \o NatToString(0 - n) ELSE NatToString(n)

\* `${x}` for the values interpolated by the source
Interpolate(x) ==
    CASE x.t = "number" -> IntToString(x.v)
      [] x.t = "string" -> x.v
      [] x.t = "boolean" -> IF x.v THEN "true" ELSE "false"
      [] x.t = "null" -> "null"
      [] x.t = "undefined" -> "undefined"
      [] x.t = "NaN" -> "NaN"
      [] OTHER -> "[object Object]"

(***************************************************************************)
(* parseOrderResponse: the response normalizer                             *)
(***************************************************************************)

RetSuccess == 10009
RetFailure == 10004

\* the result object; order is undefined where the source does not set it
ParseResult(rc, ord, cm) == [retcode |-> rc, order |-> ord, comment |-> cm]

\* the object branch, lines 660-751
ParseObjectResponse(d, operation) ==
    LET
        \* x > 0, with the conversion to number the comparison applies
        GreaterThanZero(x) ==
            LET
                \* the string is an optional '-' and decimal digits only (the numeric strings
                \* of the model; every other string converts to NaN in a comparison)
                IsIntegerString(s) ==
                    LET digits == IF Len(s) > 0 /\ SubSeq(s, 1, 1) = "-"
                                  THEN SubSeq(s, 2, Len(s)) ELSE s
                    IN  /\ Len(digits) > 0
                        /\ \A i \in 1..Len(digits) :
                               DigitValue(SubSeq(digits, i, i)) >= 0
            IN
            CASE x.t = "number" -> x.v > 0
              [] x.t = "string" -> IsIntegerString(x.v) /\ ParseIntStr(x.v).v > 0
              [] x.t = "boolean" -> x.v
              [] OTHER -> FALSE
        \* x === s for a string s
        StrictEqStr(x, s) == x.t = "string" /\ x.v = s
        msgOrComment(dflt) ==
            OrElse(OrElse(Field(d, "message"), Field(d, "comment")), JStr(dflt))
        commentOrMsg(dflt) ==
            OrElse(OrElse(Field(d, "comment"), Field(d, "message")), JStr(dflt))
        orderOrTicket == OrElse(OrElse(Field(d, "order"), Field(d, "ticket")), JNum(0))
    IN
    IF HasField(d, "ticket") /\ GreaterThanZero(Field(d, "ticket"))
    THEN ParseResult(RetSuccess, Field(d, "ticket"),
                     msgOrComment(operation \o " successful"))
    ELSE IF HasField(d, "retcode")
    THEN LET raw == Field(d, "retcode")
             \* parseInt(responseData.retcode) || responseData.retcode
             retcode == OrElse(ParseInt(raw), raw)
         IN  IF StrictEqNum(retcode, RetSuccess) \/ StrictEqStr(retcode, "10009")
             THEN ParseResult(RetSuccess, orderOrTicket,
                              commentOrMsg(operation \o " successful"))
             ELSE LET q == OrElse(ParseInt(retcode), JNum(RetFailure))
                  IN  ParseResult(q.v, JUndefined,
                                  commentOrMsg(operation \o " failed with retcode: "
                                               \o Interpolate(retcode)))
    ELSE IF HasField(d, "success")
    THEN IF \/ Field(d, "success").t = "boolean" /\ Field(d, "success").v
            \/ StrictEqStr(Field(d, "success"), "true")
         THEN ParseResult(RetSuccess, orderOrTicket,
                          msgOrComment(operation \o " successful"))
         ELSE ParseResult(RetFailure, JUndefined, msgOrComment(operation \o " failed"))
    ELSE IF HasField(d, "error") \/ HasField(d, "Error")
    THEN ParseResult(RetFailure, JUndefined,
                     OrElse(OrElse(Field(d, "error"), Field(d, "Error")),
                            JStr(operation \o " failed")))
    ELSE LET m == Field(d, "message")
             lower == IF m.t = "string" THEN ToLowerCase(m.v) ELSE ""
             isText == HasField(d, "message") /\ m.t = "string"
         IN
         IF isText /\ (Includes(lower, "success") \/ Includes(lower, "executed")
                       \/ Includes(lower, "placed"))
         THEN ParseResult(RetSuccess, orderOrTicket, m)
         ELSE IF isText /\ (Includes(lower, "error") \/ Includes(lower, "failed")
                            \/ Includes(lower, "invalid"))
         THEN ParseResult(RetFailure, JUndefined, m)
         ELSE IF HasField(d, "order") /\ GreaterThanZero(Field(d, "order"))
         THEN ParseResult(RetSuccess, Field(d, "order"),
                          commentOrMsg(operation \o " successful"))
         ELSE ParseResult(RetSuccess, JUndefined,
                          JStr(operation \o " completed (unrecognized response format)"))

\* a string branch that tests the error keywords before the success keywords
ParseStringErrorsFirst(s, operation) ==
    LET ticketNumber == ParseIntStr(s)
        lower == ToLowerCase(s)
    IN
    IF ticketNumber.t = "number" /\ ticketNumber.v > 0
    THEN ParseResult(RetSuccess, ticketNumber, JStr(operation \o " successful"))
    ELSE IF \/ Includes(lower, "error") \/ Includes(lower, "failed")
            \/ Includes(lower, "invalid") \/ Includes(lower, "denied")
    THEN ParseResult(RetFailure, JUndefined, JStr(s))
    ELSE ParseResult(RetSuccess, JUndefined, JStr(s))

\* the string branch, lines 753-792
ParseStringResponse(s, operation) ==
    LET ticketNumber == ParseIntStr(s)
        lower == ToLowerCase(s)
    IN
    IF ticketNumber.t = "number" /\ ticketNumber.v > 0
    THEN ParseResult(RetSuccess, ticketNumber, JStr(operation \o " successful"))
    ELSE IF \/ Includes(lower, "success") \/ Includes(lower, "executed")
            \/ Includes(lower, "placed") \/ lower = "ok" \/ lower = "true"
    THEN ParseResult(RetSuccess, JUndefined, JStr(s))
    ELSE IF \/ Includes(lower, "error") \/ Includes(lower, "failed")
            \/ Includes(lower, "invalid") \/ Includes(lower, "denied")
    THEN ParseResult(RetFailure, JUndefined, JStr(s))
    ELSE ParseResult(RetSuccess, JUndefined, JStr(s))

\* a number branch that leaves the comment out of its result
ParseNumberUncommented(n, operation) ==
    ParseResult(IF n >= 0 THEN RetSuccess ELSE 0 - n,
                IF n > 0 THEN JNum(n) ELSE JUndefined, JUndefined)

\* the number branch, lines 794-818; for n < 0 the retcode is
\* Math.abs(n) || 10004, and Math.abs(n) is never 0 there
ParseNumberResponse(n, operation) ==
    IF n > 0
    THEN ParseResult(RetSuccess, JNum(n), JStr(operation \o " successful"))
    ELSE IF n = 0
    THEN ParseResult(RetSuccess, JUndefined, JStr(operation \o " completed"))
    ELSE ParseResult(0 - n, JUndefined,
                     JStr(operation \o " failed with code: " \o IntToString(n)))

parseOrderResponse(responseData, operation) ==
    CASE responseData.t \in {"null", "undefined"} ->
            ParseResult(RetSuccess, JUndefined,
                        JStr(operation \o " completed successfully"))
      [] responseData.t = "object" -> ParseObjectResponse(responseData, operation)
      \* typeof [] is 'object' too, and an array has none of the properties
      \* the object branch looks for
      [] responseData.t = "array" ->
            ParseObjectResponse(JObj([k \in {} |-> JUndefined]), operation)
      [] responseData.t = "string" -> ParseStringResponse(responseData.v, operation)
      [] responseData.t = "number" -> ParseNumberResponse(responseData.v, operation)
      [] responseData.t = "boolean" ->
            ParseResult(IF responseData.v THEN RetSuccess ELSE RetFailure, JUndefined,
                        JStr(operation \o (IF responseData.v THEN " successful"
                                                              ELSE " failed")))
      [] OTHER ->
            ParseResult(RetFailure, JUndefined,
                        JStr(operation \o " failed - unexpected response format"))

(***************************************************************************)
(* Bridge answers.  axios resolves a request answered with a 2xx status    *)
(* and rejects every other answer with an error whose message is           *)
(* 'Request failed with status code N' and whose response carries the      *)
(* status; a transport failure rejects with no response at all.            *)
(***************************************************************************)

Resolved(status, data) == [kind |-> "ok", status |-> status, data |-> data]
\* status 0: the error has no response (network failure, timeout)
Rejected(status, code, message) ==
    [kind |-> "error", status |-> status, code |-> code, message |-> message]
HttpError(status) ==
    Rejected(status, IF status >= 500 THEN "ERR_BAD_RESPONSE" ELSE "ERR_BAD_REQUEST",
             "Request failed with status code " \o IntToString(status))

\* the failures of the transport itself: no answer, or none within the
\* timeout the client is created with
TransportErrors ==
    { Rejected(0, "ERR_NETWORK", "Network Error"),
      Rejected(0, "ECONNABORTED", "timeout of 30000ms exceeded") }

\* the test every catch block of the adapter applies to the error it caught
IsAuthMessage(message) ==
    \/ Includes(message, "Authentication failed")
    \/ Includes(message, "Session expired")
    \/ Includes(message, "Invalid token")
IsAuthError(e) == IsAuthMessage(e.message) \/ e.status = 401

\* a value with decimals (lots, volume) inside a body
JDec(v) == [t |-> "decimal", v |-> v]
\* an array body
JArr(items) == [t |-> "array", v |-> items]

(***************************************************************************)
(* getPositions: the decoding of the /OpenedOrders answer, lines 552-638   *)
(***************************************************************************)

\* one element of positions.map(...)
MapPosition(order) ==
    LET
        \* position.lots || 0 and position.volume || 0
        \* position.ticket || 0, position.profit || 0
        NumberOrZero(x) == IF x.t = "number" THEN x.v ELSE 0
        DecimalOrZero(x) == IF x.t = "decimal" THEN x.v ELSE Zero
    IN
    [ticket |-> NumberOrZero(Field(order, "ticket")),
     type |-> Field(order, "orderType").v,
     volume |-> DecimalOrZero(Field(order, "lots")),
     rawVolume |-> DecimalOrZero(Field(order, "volume")),
     profit |-> NumberOrZero(Field(order, "profit"))]

RECURSIVE MapMarketOrders(_)
MapMarketOrders(orders) ==
    LET
        \* order && (order.orderType === 'Buy' || order.orderType === 'Sell')
        IsMarketOrder(order) ==
            /\ order.t = "object"
            /\ Field(order, "orderType").t = "string"
            /\ Field(order, "orderType").v \in {"Buy", "Sell"}
    IN
    IF orders = <<>> THEN <<>>
    ELSE IF IsMarketOrder(Head(orders))
    THEN <<MapPosition(Head(orders))>> \o MapMarketOrders(Tail(orders))
    ELSE MapMarketOrders(Tail(orders))

\* what getPositions does with the answer r of its request:
\* [threw, clears, value, message]
GetPositionsOutcome(r) ==
    LET
        \* the array the orders are taken from, lines 555-581; a primitive body
        \* gives no array, and [] is returned (an empty array gives the same result)
        OrdersData(data) ==
            CASE data.t = "array" -> data.v
              [] data.t = "object" ->
                    IF Field(data, "orders").t = "array" THEN Field(data, "orders").v
                    ELSE IF Field(data, "data").t = "array" THEN Field(data, "data").v
                    ELSE IF Field(data, "positions").t = "array" THEN Field(data, "positions").v
                    ELSE <<data>>
              [] OTHER -> <<>>
        \* truthiness of the values a positions or quote body may hold
        TruthyData(x) == IF x.t = "decimal" THEN IsPositive(x.v) ELSE Truthy(x)
    IN
    IF r.kind = "ok"
    THEN [threw |-> FALSE, clears |-> FALSE, message |-> "",
          value |-> IF r.status \in {200, 201} /\ TruthyData(r.data)
                    THEN MapMarketOrders(OrdersData(r.data))
                    ELSE <<>>]
    ELSE [threw |-> TRUE, clears |-> IsAuthError(r), value |-> <<>>,
          message |-> IF r.message # "" THEN r.message
                      ELSE "Failed to retrieve positions"]

(***************************************************************************)
(* closePosition: the candidate list, lines 1076-1165                      *)
(***************************************************************************)

VolumeFormatEntry(value, description) == [value |-> value, description |-> description]

\* the factors with x 1000 and x 10000 in each other's place
scalingFactorsSwapped ==
    << [exp |-> 4, description |-> "Volume x 10000 (mini lots to units)"],
       [exp |-> 3, description |-> "Volume x 1000 (micro lots to units)"],
       [exp |-> 5, description |-> "Volume x 100000 (standard lots to units)"],
       [exp |-> -3, description |-> "Volume / 1000 (units to micro lots)"],
       [exp |-> -4, description |-> "Volume / 10000 (units to mini lots)"],
       [exp |-> -5, description |-> "Volume / 100000 (units to standard lots)"],
       [exp |-> 1, description |-> "Volume x 10"],
       [exp |-> 2, description |-> "Volume x 100"],
       [exp |-> -1, description |-> "Volume / 10"],
       [exp |-> -2, description |-> "Volume / 100"] >>

\* the scaling factors 10^exp of the position's lots, lines 1109-1120
scalingFactors ==
    << [exp |-> 3, description |-> "Volume x 1000 (micro lots to units)"],
       [exp |-> 4, description |-> "Volume x 10000 (mini lots to units)"],
       [exp |-> 5, description |-> "Volume x 100000 (standard lots to units)"],
       [exp |-> -3, description |-> "Volume / 1000 (units to micro lots)"],
       [exp |-> -4, description |-> "Volume / 10000 (units to mini lots)"],
       [exp |-> -5, description |-> "Volume / 100000 (units to standard lots)"],
       [exp |-> 1, description |-> "Volume x 10"],
       [exp |-> 2, description |-> "Volume x 100"],
       [exp |-> -1, description |-> "Volume / 10"],
       [exp |-> -2, description |-> "Volume / 100"] >>

\* the raw volume scaled as the lots are: ten factors in the order of
\* scalingFactors
rawScalingFactorsTen ==
    << [exp |-> 3, description |-> "Raw volume x 1000"],
       [exp |-> 4, description |-> "Raw volume x 10000"],
       [exp |-> 5, description |-> "Raw volume x 100000"],
       [exp |-> -3, description |-> "Raw volume x 0.001"],
       [exp |-> -4, description |-> "Raw volume x 0.0001"],
       [exp |-> -5, description |-> "Raw volume x 0.00001"],
       [exp |-> 1, description |-> "Raw volume x 10"],
       [exp |-> 2, description |-> "Raw volume x 100"],
       [exp |-> -1, description |-> "Raw volume x 0.1"],
       [exp |-> -2, description |-> "Raw volume x 0.01"] >>

\* the scaling factors of the raw volume, line 1137: 1000, 0.001, 100, 0.01, 10, 0.1
rawScalingFactors ==
    << [exp |-> 3, description |-> "Raw volume x 1000"],
       [exp |-> -3, description |-> "Raw volume x 0.001"],
       [exp |-> 2, description |-> "Raw volume x 100"],
       [exp |-> -2, description |-> "Raw volume x 0.01"],
       [exp |-> 1, description |-> "Raw volume x 10"],
       [exp |-> -1, description |-> "Raw volume x 0.1"] >>

\* volumeFormats.some(v => Math.abs(v.value - x) < 0.000001)
SomeNear(volumeFormats, x) ==
    \E j \in 1..Len(volumeFormats) : Near(volumeFormats[j].value, x)

\* factors.forEach(...) of lines 1122-1132 and 1138-1147: push base * factor
\* when it is in (0, 1000000) and not yet in the list
RECURSIVE PushScaled(_, _, _)
PushScaled(volumeFormats, base, factors) ==
    IF factors = <<>> THEN volumeFormats
    ELSE LET scaledVolume == Scale(base, Head(factors).exp)
             pushed ==
                 IF /\ IsPositive(scaledVolume) /\ BelowLimit(scaledVolume)
                    /\ ~SomeNear(volumeFormats, scaledVolume)
                 THEN Append(volumeFormats,
                             VolumeFormatEntry(scaledVolume, Head(factors).description))
                 ELSE volumeFormats
         IN  PushScaled(pushed, base, Tail(factors))

fallbackVolumes ==
    << Vol(0, 10000000), Vol(0, 100000000), Vol(1, 0), Vol(10, 0), Vol(100, 0),
       Vol(1000, 0), Vol(10000, 0), Vol(100000, 0) >>

\* volumeFormats as it stands at line 1161; volumeToClose and positionDetails
\* are None when absent
VolumeFormats(volumeToClose, positionDetails) ==
    LET provided ==
            IF volumeToClose # None /\ IsPositive(volumeToClose)
            THEN <<VolumeFormatEntry(volumeToClose, "Provided volume")>>
            ELSE <<>>
        lots ==
            IF positionDetails # None /\ IsPositive(positionDetails.volume)
            THEN Append(provided,
                        VolumeFormatEntry(positionDetails.volume, "Position lots volume"))
            ELSE provided
        raw ==
            IF /\ positionDetails # None
               /\ IsPositive(positionDetails.rawVolume)
               /\ positionDetails.rawVolume # positionDetails.volume
            THEN Append(lots, VolumeFormatEntry(positionDetails.rawVolume,
                                                "Position raw volume"))
            ELSE lots
        scaled ==
            IF positionDetails # None /\ IsPositive(positionDetails.volume)
            THEN PushScaled(raw, positionDetails.volume, scalingFactors)
            ELSE raw
        rawScaled ==
            IF positionDetails # None /\ IsPositive(positionDetails.rawVolume)
            THEN PushScaled(scaled, positionDetails.rawVolume, rawScalingFactors)
            ELSE scaled
    IN  IF Len(rawScaled) = 0
        THEN [j \in 1..Len(fallbackVolumes) |->
                 VolumeFormatEntry(fallbackVolumes[j], "Fallback volume")]
        ELSE rawScaled

\* Array.prototype.filter keeping the indices in keep, in order
RECURSIVE FilterIndices(_, _, _)
FilterIndices(self, j, keep) ==
    IF j > Len(self) THEN <<>>
    ELSE (IF j \in keep THEN <<self[j]>> ELSE <<>>) \o FilterIndices(self, j + 1, keep)

\* a filter that keeps every entry
KeepAllFormats(volumeFormats) == volumeFormats

\* uniqueFormats, lines 1163-1165
UniqueFormats(volumeFormats) ==
    LET
        \* self.findIndex(f => Math.abs(f.value - format.value) < 0.000001)
        FindIndexNear(self, value) ==
            CHOOSE j \in 1..Len(self) :
                /\ Near(self[j].value, value)
                /\ \A k \in 1..(j - 1) : ~Near(self[k].value, value)
    IN
    FilterIndices(volumeFormats, 1,
                  {j \in 1..Len(volumeFormats) :
                      j = FindIndexNear(volumeFormats, volumeFormats[j].value)})

(***************************************************************************)
(* connect: the decoding of the /ConnectEx answer, lines 89-245            *)
(***************************************************************************)

ConnectionResponse(success, token, message) ==
    [success |-> success, token |-> token, message |-> message]

\* typeof x === 'string' && x.length > 10
IsLongString(x) == x.t = "string" /\ Len(x.v) > 10

\* the first of id, sessionId, connectionId, accessToken that holds a long string
FirstTokenField(d) ==
    LET possibleTokenFields == <<"id", "sessionId", "connectionId", "accessToken">>
        hits == {j \in 1..4 : IsLongString(Field(d, possibleTokenFields[j]))}
    IN  IF hits = {} THEN None
        ELSE Field(d, possibleTokenFields[CHOOSE j \in hits : \A k \in hits : j <= k])

\* what connect returns for the answer r; token is the string value it stores
ConnectOutcome(r) ==
    LET
        \* Case 1, lines 93-162; None: the object decides nothing and the code falls
        \* through to the checks that follow
        ConnectObject(d) ==
            LET
                \* the user-facing text for an error object, lines 123-134
                ObjectErrorMessage(errorMessage, errorCode) ==
                    IF errorCode = "INVALID_ACCOUNT" \/ Includes(errorMessage, "INVALID_ACCOUNT")
                    THEN "Invalid account credentials. Please verify your account number, password, and server are correct."
                    ELSE IF errorCode = "INVALID_PASSWORD" \/ Includes(errorMessage, "INVALID_PASSWORD")
                    THEN "Incorrect password. Please check your MT5 account password."
                    ELSE IF errorCode = "INVALID_SERVER" \/ Includes(errorMessage, "INVALID_SERVER")
                    THEN "Invalid server. Please select the correct server for your broker."
                    ELSE IF errorCode = "ACCOUNT_DISABLED" \/ Includes(errorMessage, "ACCOUNT_DISABLED")
                    THEN "Account is disabled. Please contact your broker to activate your account."
                    ELSE IF errorCode = "CONNECTION_FAILED" \/ Includes(errorMessage, "CONNECTION_FAILED")
                    THEN "Failed to connect to broker server. Please check your internet connection and try again."
                    ELSE errorMessage
                tok == Field(d, "token")
                msg == OrElse(Field(d, "message"), JStr("Connected successfully"))
            IN
            IF /\ HasField(d, "token") /\ IsLongString(tok)
               /\ ~Includes(tok.v, "INVALID") /\ ~Includes(tok.v, "ERROR")
            THEN ConnectionResponse(TRUE, tok, msg.v)
            ELSE IF \/ HasField(d, "error") \/ HasField(d, "code")
                    \/ (HasField(d, "message") /\ Field(d, "message").t = "string")
            THEN LET errorMessage ==
                         OrElse(OrElse(Field(d, "error"), Field(d, "message")),
                                JStr("Unknown error"))
                     errorCode == OrElse(Field(d, "code"), JStr("UNKNOWN_ERROR"))
                 IN  IF errorMessage.t = "string"
                     THEN ConnectionResponse(FALSE, None,
                              ObjectErrorMessage(errorMessage.v, Interpolate(errorCode)))
                     \* errorMessage.includes is not a function: the TypeError is
                     \* caught at line 228 and its message returned
                     ELSE ConnectionResponse(FALSE, None,
                                             "errorMessage.includes is not a function")
            ELSE IF /\ HasField(d, "success")
                    /\ Field(d, "success").t = "boolean" /\ Field(d, "success").v
                    /\ FirstTokenField(d) # None
            THEN ConnectionResponse(TRUE, FirstTokenField(d), msg.v)
            ELSE None
        \* Case 2, lines 165-202; None: falls through
        ConnectString(responseData) ==
            LET lower == ToLowerCase(responseData)
                \* the user-facing text for an error string, lines 173-180
                StringErrorMessage ==
                    IF Includes(lower, "invalid_account") \/ Includes(lower, "invalid account")
                    THEN "Invalid account credentials. Please verify your account number, password, and server are correct."
                    ELSE IF Includes(lower, "invalid_password") \/ Includes(lower, "invalid password")
                    THEN "Incorrect password. Please check your MT5 account password."
                    ELSE IF Includes(lower, "invalid_server") \/ Includes(lower, "invalid server")
                    THEN "Invalid server. Please select the correct server for your broker."
                    ELSE responseData
            IN  IF \/ Includes(lower, "invalid") \/ Includes(lower, "error")
                   \/ Includes(lower, "failed") \/ Includes(lower, "denied")
                THEN ConnectionResponse(FALSE, None, StringErrorMessage)
                ELSE IF Len(responseData) > 10
                THEN ConnectionResponse(TRUE, JStr(responseData), "Connected successfully")
                ELSE None
        \* the text of the catch block, lines 232-239
        ConnectErrorMessage(e) ==
            IF e.code = "ECONNREFUSED"
            THEN "Cannot connect to MT5 API server. Please check your internet connection and try again."
            ELSE IF e.code = "ETIMEDOUT"
            THEN "Connection timeout. Please check your internet connection and try again."
            ELSE IF e.status = 404 THEN "MT5 API endpoint not found. Please contact support."
            ELSE IF e.message # "" THEN e.message ELSE "Connection failed"
        UnexpectedFormat ==
            ConnectionResponse(FALSE, None,
                               "Unexpected response format from MT5 API. Please try again.")
    IN
    IF r.kind = "error" THEN ConnectionResponse(FALSE, None, ConnectErrorMessage(r))
    ELSE IF r.status \notin {200, 201}
    THEN ConnectionResponse(FALSE, None,
             "Connection failed with HTTP status: " \o IntToString(r.status))
    ELSE LET d == r.data
             fromObject == IF d.t = "object" THEN ConnectObject(d) ELSE None
             fromString == IF d.t = "string" THEN ConnectString(d.v) ELSE None
         IN  IF fromObject # None THEN fromObject
             ELSE IF fromString # None THEN fromString
             ELSE IF d.t = "number" /\ d.v > 0
             THEN ConnectionResponse(TRUE, JStr(IntToString(d.v)),
                                     "Connected successfully")
             ELSE UnexpectedFormat

(***************************************************************************)
(* The adapter and its calls                                               *)
(***************************************************************************)

VARIABLES
    token,    \* this.token: null or a string value
    stored,   \* localStorage['mt5_token']: null or a string value
    call,     \* per call slot: the method running there, where it is
              \* suspended, its locals, the requests it issued, its outcome
    apiKey,   \* this.apiKey: VITE_MT5_API_KEY of the build, '' when not set
    mt5Token, \* the token cell of the object-style service of
              \* src/lib/mt5ApiService.ts: null or a string value
    storePositions  \* state.positions of the trading store: the tickets
              \* of the positions it shows

vars == <<token, stored, call, apiKey, mt5Token, storePositions>>

\* the call slots; the calls of Spec run one after the other in slot "a"
Slots == {"a", "b"}
SequentialSlots == {"a"}

\* a slot in which no method has run yet
NoCall ==
    [op |-> "none", pc |-> "done", args |-> None, reqs |-> <<>>, last |-> None,
     res |-> None, got401 |-> FALSE, transportFailed |-> FALSE, clearedAt |-> -1,
     positionDetails |-> None, fetched |-> FALSE, positions |-> <<>>,
     uniqueFormats |-> <<>>, i |-> 0, answered |-> 0, answers |-> 0,
     allSymbols |-> <<>>, actualSymbol |-> "",
     summaryResponse |-> None, detailsResponse |-> None, lastError |-> None,
     result |-> None, willReturn |-> FALSE, toasts |-> <<>>]

\* a method starts: its locals are fresh
NewCall(op, args) == [NoCall EXCEPT !.op = op, !.args = args, !.pc = "run"]

\* await this.apiClient.get(path, {params}): the request goes out with the
\* ApiKey header of the client and the method is suspended at pc; seen notes
\* how many answers the call had received when it issued the request
Get(cr, path, params, pc) ==
    [cr EXCEPT !.reqs = Append(@, [path |-> path, params |-> params,
                                   ApiKey |-> apiKey, seen |-> cr.answers]),
               !.pc = pc]

\* the answer r arrives and the method resumes
Resume(cr, r) ==
    [cr EXCEPT !.last = r,
               !.answers = @ + 1,
               !.got401 = @ \/ (r.kind = "error" /\ r.status = 401),
               !.transportFailed = @ \/ r \in TransportErrors]

\* return v / throw new Error(message)
Return(cr, v) == [cr EXCEPT !.pc = "done", !.res = [kind |-> "return", value |-> v]]
\* a catch block that returns nothing in the place of throwing
ReturnNone(cr, message) == Return(cr, None)
Throw(cr, message) ==
    [cr EXCEPT !.pc = "done", !.res = [kind |-> "throw", value |-> message]]

\* the call notes how many requests it had issued when it cleared the token
NoteCleared(cr) == [cr EXCEPT !.clearedAt = Len(cr.reqs)]

Idle(c) == call[c].pc = "done"
At(c, op, pc) == call[c].op = op /\ call[c].pc = pc

\* the session token the bridge hands out as a string (a numeric answer
\* of /ConnectEx gives a second one)
TokenA == "session-token-A"

\* the API key of a configured build
BridgeApiKey == "bridge-api-key-0123456789"

\* what VITE_MT5_API_KEY can hold: nothing (line 33 makes it ''), the
\* placeholder of an .env template, or the key
ApiKeys == {"", "your_mt5_api_key_here", BridgeApiKey}

\* a constructor that leaves the token of an earlier page load where it is
ConstructedUnrestored ==
    /\ stored \in {JNull, JStr(TokenA)}
    /\ token = JNull
    /\ call = [c \in Slots |-> NoCall]

\* localStorage starts empty or holds the token of an earlier page load;
\* the constructor restores it, lines 46-51
Constructed ==
    /\ stored \in {JNull, JStr(TokenA)}
    /\ token = (IF Truthy(stored) THEN stored ELSE JNull)
    /\ call = [c \in Slots |-> NoCall]

\* let mt5Token: string | null = null, and positions: [] of the store
ModuleLoaded == mt5Token = JNull /\ storePositions = <<>>

\* the adapter of a configured build
Init ==
    /\ Constructed
    /\ apiKey = BridgeApiKey
    /\ ModuleLoaded

(***************************************************************************)
(* setToken, clearToken: synchronous, lines 1345-1359                      *)
(***************************************************************************)

setToken(c, t) ==
    /\ Idle(c)
    /\ token' = JStr(t)
    /\ stored' = JStr(t)
    /\ call' = [call EXCEPT ![c] = Return(NewCall("setToken", [token |-> t]), None)]
    /\ UNCHANGED <<apiKey, mt5Token, storePositions>>

clearToken(c) ==
    /\ Idle(c)
    /\ token' = JNull
    /\ stored' = JNull
    /\ call' = [call EXCEPT ![c] = Return(NewCall("clearToken", None), None)]
    /\ UNCHANGED <<apiKey, mt5Token, storePositions>>

(***************************************************************************)
(* connect, lines 61-246                                                   *)
(***************************************************************************)

Credentials ==
    {[accountNumber |-> "5012345", password |-> "secret", serverName |-> "Demo-Server"]}

ConnectAnswers ==
    LET
        \* the bodies the bridge answers /ConnectEx with
        ConnectBodies ==
            { JStr(TokenA), JStr("short"), JStr("Invalid account"),
              JStr("access denied for this account"), JNum(7001), JNum(0), JNull,
              JObj([token |-> JStr(TokenA)]),
              JObj([success |-> JBool(TRUE), id |-> JStr(TokenA)]),
              JObj([success |-> JBool(TRUE), id |-> JStr(TokenA), message |-> JStr("Welcome")]),
              JObj([error |-> JStr("INVALID_PASSWORD")]),
              JObj([success |-> JBool(FALSE)]) }
    IN
    {Resolved(st, b) : st \in {200, 201, 202}, b \in ConnectBodies}
    \cup {HttpError(401), HttpError(404), HttpError(500)} \cup TransportErrors

connect(c, credentials) ==
    /\ Idle(c)
    /\ call' = [call EXCEPT ![c] =
                   Get(NewCall("connect", credentials), "/ConnectEx",
                       [user |-> ParseIntStr(credentials.accountNumber),
                        password |-> credentials.password,
                        server |-> credentials.serverName],
                       "ConnectEx")]
    /\ UNCHANGED <<token, stored>>
    /\ UNCHANGED <<apiKey, mt5Token, storePositions>>

\* a connect that keeps the token in memory only
connectAnsweredUnsaved(c, r) ==
    /\ At(c, "connect", "ConnectEx")
    /\ LET out == ConnectOutcome(r)
       IN  /\ token' = (IF out.success THEN out.token ELSE token)
           /\ call' = [call EXCEPT ![c] = Return(Resume(@, r), out)]
    /\ UNCHANGED stored
    /\ UNCHANGED <<apiKey, mt5Token, storePositions>>

\* a connect that drops the session it held when the attempt fails
connectAnsweredForgetful(c, r) ==
    /\ At(c, "connect", "ConnectEx")
    /\ LET out == ConnectOutcome(r)
       IN  /\ token' = (IF out.success THEN out.token ELSE JNull)
           /\ stored' = (IF out.success THEN out.token ELSE JNull)
           /\ call' = [call EXCEPT ![c] = Return(Resume(@, r), out)]
    /\ UNCHANGED <<apiKey, mt5Token, storePositions>>

connectAnswered(c, r) ==
    /\ At(c, "connect", "ConnectEx")
    /\ LET out == ConnectOutcome(r)
       IN  /\ token' = (IF out.success THEN out.token ELSE token)
           /\ stored' = (IF out.success THEN out.token ELSE stored)
           /\ call' = [call EXCEPT ![c] = Return(Resume(@, r), out)]
    /\ UNCHANGED <<apiKey, mt5Token, storePositions>>

(***************************************************************************)
(* disconnect, lines 248-273                                               *)
(***************************************************************************)

DisconnectAnswers ==
    {Resolved(200, JBool(TRUE)), Resolved(204, JNull)}
    \cup {HttpError(401), HttpError(500)} \cup TransportErrors

disconnect(c) ==
    /\ Idle(c)
    /\ IF Truthy(token)
       THEN /\ call' = [call EXCEPT ![c] =
                           Get(NewCall("disconnect", None), "/Disconnect",
                               [id |-> token], "Disconnect")]
            /\ UNCHANGED <<token, stored>>
       ELSE /\ token' = JNull
            /\ stored' = JNull
            /\ call' = [call EXCEPT ![c] =
                           Return(NewCall("disconnect", None), TRUE)]
    /\ UNCHANGED <<apiKey, mt5Token, storePositions>>

disconnectAnswered(c, r) ==
    /\ At(c, "disconnect", "Disconnect")
    /\ IF r.kind = "ok"
       THEN /\ token' = JNull
            /\ stored' = JNull
            /\ call' = [call EXCEPT ![c] = Return(Resume(@, r), TRUE)]
       ELSE \* catch (error): logged, return false
            /\ call' = [call EXCEPT ![c] = Return(Resume(@, r), FALSE)]
            /\ UNCHANGED <<token, stored>>
    /\ UNCHANGED <<apiKey, mt5Token, storePositions>>

(***************************************************************************)
(* checkConnection, lines 275-285                                          *)
(***************************************************************************)

CheckConnectAnswers ==
    {Resolved(200, JBool(TRUE)), Resolved(204, JNull)}
    \cup {HttpError(401), HttpError(500)} \cup TransportErrors

\* a checkConnection that asks the bridge whether or not a token is held
checkConnectionUnguarded(c) ==
    /\ Idle(c)
    /\ call' = [call EXCEPT ![c] =
                   Get(NewCall("checkConnection", None), "/CheckConnect",
                       [id |-> token], "CheckConnect")]
    /\ UNCHANGED <<token, stored>>
    /\ UNCHANGED <<apiKey, mt5Token, storePositions>>

checkConnection(c) ==
    /\ Idle(c)
    /\ call' = [call EXCEPT ![c] =
                   IF Truthy(token)
                   THEN Get(NewCall("checkConnection", None), "/CheckConnect",
                            [id |-> token], "CheckConnect")
                   ELSE Return(NewCall("checkConnection", None), FALSE)]
    /\ UNCHANGED <<token, stored>>
    /\ UNCHANGED <<apiKey, mt5Token, storePositions>>

checkConnectionAnswered(c, r) ==
    /\ At(c, "checkConnection", "CheckConnect")
    /\ call' = [call EXCEPT ![c] =
                   Return(Resume(@, r), r.kind = "ok" /\ r.status \in {200, 201})]
    /\ UNCHANGED <<token, stored>>
    /\ UNCHANGED <<apiKey, mt5Token, storePositions>>

(***************************************************************************)
(* getPositions, lines 532-639                                             *)
(***************************************************************************)

\* the largest ticket number of the model
MaxTicket == 2

\* a raw order record of the bridge
Order(ticket, orderType, lots, volume, profit) ==
    JObj([ticket |-> JNum(ticket), orderType |-> JStr(orderType),
          lots |-> JDec(lots), volume |-> JDec(volume), profit |-> JNum(profit)])

\* an error whose message carries a session text of the bridge
SessionExpiredError == Rejected(0, "ERR_BAD_REQUEST", "Session expired")

PositionsAnswers ==
    LET
        \* the bodies the bridge answers /OpenedOrders with; the lots it reports
        \* are 0 (field absent), 0.01, 10 and the raw volumes 0 (field absent),
        \* 0.01, 0.0100005, 1000
        PositionsBodies ==
            {JArr(<<Order(1, "Buy", l, v, 5)>>) :
                l \in {Zero, Vol(0, 10000000), Vol(10, 0)},
                v \in {Zero, Vol(0, 10000000), Vol(0, 10000500), Vol(1000, 0)}}
            \cup { JArr(<<>>), JNull, JStr("no orders"),
                   JArr(<<Order(1, "BuyLimit", Vol(1, 0), Vol(1, 0), 0),
                          Order(2, "Sell", Vol(1, 0), Vol(1000, 0), -3)>>),
                   JObj([orders |-> JArr(<<Order(2, "Buy", Vol(0, 10000000), Zero, 1)>>)]),
                   Order(1, "Sell", Vol(10, 0), Vol(10, 0), 2) }
    IN
    {Resolved(200, b) : b \in PositionsBodies}
    \cup {Resolved(204, JNull), HttpError(401), HttpError(500), SessionExpiredError}
    \cup TransportErrors

getPositions(c) ==
    /\ Idle(c)
    /\ call' = [call EXCEPT ![c] =
                   IF Truthy(token)
                   THEN Get(NewCall("getPositions", None), "/OpenedOrders",
                            [id |-> token], "OpenedOrders")
                   ELSE Return(NewCall("getPositions", None), <<>>)]
    /\ UNCHANGED <<token, stored>>
    /\ UNCHANGED <<apiKey, mt5Token, storePositions>>

getPositionsAnswered(c, r) ==
    /\ At(c, "getPositions", "OpenedOrders")
    /\ LET out == GetPositionsOutcome(r)
           cr == Resume(call[c], r)
       IN  IF out.threw
           THEN /\ token' = (IF out.clears THEN JNull ELSE token)
                /\ stored' = (IF out.clears THEN JNull ELSE stored)
                /\ call' = [call EXCEPT ![c] =
                               Throw(IF out.clears THEN NoteCleared(cr) ELSE cr,
                                     out.message)]
           ELSE /\ call' = [call EXCEPT ![c] = Return(cr, out.value)]
                /\ UNCHANGED <<token, stored>>
    /\ UNCHANGED <<apiKey, mt5Token, storePositions>>

(***************************************************************************)
(* closePosition, lines 1041-1342                                          *)
(***************************************************************************)

\* the outcome object of a write operation; a field the source leaves out
\* of the object is None. The objects closePosition returns (lines 1045,
\* 1066, 1221, 1242, 1283, 1311, 1336) hold these properties and
\* formatDescription, the candidate's description, and no other
OrderOutcome(retcode, ticket, comment, volumeUsed, attemptNumber) ==
    [retcode |-> retcode, ticket |-> ticket, comment |-> comment,
     volumeUsed |-> volumeUsed, attemptNumber |-> attemptNumber]

NotConnected == OrderOutcome(RetFailure, None, "Not connected to MT5", None, None)

\* a find that takes the first position whatever its ticket
FindFirstPosition(positions, ticket) ==
    IF Len(positions) = 0 THEN None ELSE positions[1]

\* positions.find(pos => pos.ticket === ticket)
FindPosition(positions, ticket) ==
    LET hits == {j \in 1..Len(positions) : positions[j].ticket = ticket}
    IN  IF hits = {} THEN None
        ELSE positions[CHOOSE j \in hits : \A k \in hits : j <= k]

\* the 'already closed' texts of a parsed comment, lines 1212-1218
AlreadyClosedComment(comment) ==
    \/ Includes(comment, "position with the specified position_identifier has already been closed")
    \/ Includes(comment, "already been closed")
    \/ Includes(comment, "position not exists")
    \/ Includes(comment, "POSITION_NOT_EXISTS")
    \/ Includes(comment, "no such position")
    \/ Includes(comment, "not found")

\* the 'invalid volume' texts of a parsed comment, lines 1230-1234
InvalidVolumeComment(comment) ==
    \/ Includes(comment, "invalid volume")
    \/ Includes(comment, "invalid lots")
    \/ Includes(comment, "wrong volume")
    \/ Includes(comment, "incorrect volume")

\* the 'already closed' texts of an exception message, lines 1275-1280
AlreadyClosedMessage(message) ==
    \/ Includes(message, "position not found")
    \/ Includes(message, "already closed")
    \/ Includes(message, "POSITION_NOT_EXISTS")
    \/ Includes(message, "no such position")
    \/ Includes(message, "not found")

\* the parameters of one /OrderClose request, lines 1177-1186
CloseParams(tok, ticket, format) ==
    IF IsPositive(format.value)
    THEN [id |-> tok, ticket |-> ticket, slippage |-> 10, lots |-> format.value]
    ELSE [id |-> tok, ticket |-> ticket, slippage |-> 10]

\* a loop body that sends the first candidate whatever the index
SendAttemptFirst(cr, tok) ==
    Get(cr, "/OrderClose", CloseParams(tok, cr.args.ticket, cr.uniqueFormats[1]),
        "OrderClose")

\* the loop body up to its await: attempt i goes out with the token as it
\* is now
SendAttempt(cr, tok) ==
    Get(cr, "/OrderClose", CloseParams(tok, cr.args.ticket, cr.uniqueFormats[cr.i]),
        "OrderClose")

\* lines 1076-1193: build the candidates and send the first attempt
StartProbe(cr, positionDetails, tok) ==
    SendAttempt([cr EXCEPT !.positionDetails = positionDetails,
                           !.uniqueFormats =
                               UniqueFormats(VolumeFormats(cr.args.volumeToClose,
                                                           positionDetails)),
                           !.i = 1],
                tok)

\* a loop that waits, after its last candidate, for an answer that never
\* comes
NextAttemptStalling(cr, tok) ==
    IF cr.i < Len(cr.uniqueFormats)
    THEN SendAttempt([cr EXCEPT !.i = @ + 1], tok)
    ELSE [cr EXCEPT !.pc = "stalled"]

\* a loop that gives up at the first candidate that fails
NextAttemptGivingUp(cr, tok) ==
    Return(cr, OrderOutcome(RetFailure, None,
               "Failed to close position " \o IntToString(cr.args.ticket)
               \o " - tried " \o IntToString(Len(cr.uniqueFormats))
               \o " different volume formats", None, None))

\* a loop that steps over every other candidate
NextAttemptSkipping(cr, tok) ==
    IF cr.i + 1 < Len(cr.uniqueFormats)
    THEN SendAttempt([cr EXCEPT !.i = @ + 2], tok)
    ELSE Return(cr, OrderOutcome(RetFailure, None,
                    "Failed to close position " \o IntToString(cr.args.ticket)
                    \o " - tried " \o IntToString(Len(cr.uniqueFormats))
                    \o " different volume formats", None, None))

\* `continue`, or the end of the loop body at the last index: the next
\* attempt goes out, or the loop is over and lines 1309-1314 return
NextAttempt(cr, tok) ==
    IF cr.i < Len(cr.uniqueFormats)
    THEN SendAttempt([cr EXCEPT !.i = @ + 1], tok)
    ELSE Return(cr, OrderOutcome(RetFailure, None,
                    "Failed to close position " \o IntToString(cr.args.ticket)
                    \o " - tried " \o IntToString(Len(cr.uniqueFormats))
                    \o " different volume formats", None, None))

\* an already-closed position reported as a failure of the close
AlreadyClosedAsFailure(cr) ==
    Return(cr, OrderOutcome(RetFailure, None, "Position already closed", None, None))

AlreadyClosed(cr) ==
    Return(cr, OrderOutcome(RetSuccess, JNum(cr.args.ticket), "Position already closed",
                            cr.uniqueFormats[cr.i].value, cr.i))

\* a success test that also wants an order number in the result
IsSuccessWithOrder(result) == result.retcode = RetSuccess /\ Truthy(result.order)

\* result.retcode === 10009, line 1240
IsSuccess(result) == result.retcode = RetSuccess

\* what the loop body does with the answer r of attempt i, lines 1204-1306:
\* [cr |-> the call afterwards, clears |-> whether clearToken() ran]
AttemptOutcome(cr, r, tok) ==
    LET format == cr.uniqueFormats[cr.i]
        result == parseOrderResponse(r.data, "OrderClose")
        \* result.comment && result.comment.includes(...)
        comment == IF Truthy(result.comment) /\ result.comment.t = "string"
                   THEN result.comment.v ELSE ""
        \* result.comment.includes is not a function: a TypeError, caught at
        \* line 1264 as the attempt's exception
        typeError == Truthy(result.comment) /\ result.comment.t # "string"
    IN
    IF r.kind = "ok"
    THEN IF r.status \in {200, 201}
         THEN IF typeError THEN [cr |-> NextAttempt(cr, tok), clears |-> FALSE]
              ELSE IF AlreadyClosedComment(comment)
              THEN [cr |-> AlreadyClosed(cr), clears |-> FALSE]
              ELSE IF InvalidVolumeComment(comment)
              THEN [cr |-> NextAttempt(cr, tok), clears |-> FALSE]
              ELSE IF IsSuccess(result)
              THEN [cr |-> Return(cr, OrderOutcome(RetSuccess,
                                      OrElse(result.order, JNum(cr.args.ticket)),
                                      IF comment # "" THEN comment
                                      ELSE "Position closed successfully",
                                      format.value, cr.i)),
                    clears |-> FALSE]
              ELSE [cr |-> NextAttempt(cr, tok), clears |-> FALSE]
         ELSE [cr |-> NextAttempt(cr, tok), clears |-> FALSE]
    ELSE IF r.message # "" /\ AlreadyClosedMessage(r.message)
    THEN [cr |-> AlreadyClosed(cr), clears |-> FALSE]
    ELSE IF r.message # "" /\ IsAuthMessage(r.message)
    \* clearToken(); throw attemptError: caught at line 1316, which clears
    \* again and returns the error's message
    THEN [cr |-> Return(NoteCleared(cr),
                        OrderOutcome(RetFailure, None, r.message, None, None)),
          clears |-> TRUE]
    ELSE [cr |-> NextAttempt(cr, tok), clears |-> FALSE]

\* a closePosition that turns a call away while another call is closing
\* the same ticket
closePositionDeduplicating(c, ticket, volumeToClose) ==
    /\ Idle(c)
    /\ LET cr == NewCall("closePosition",
                         [ticket |-> ticket, volumeToClose |-> volumeToClose])
           closing == \E d \in Slots \ {c} :
                          /\ call[d].op = "closePosition" /\ call[d].pc # "done"
                          /\ call[d].args.ticket = ticket
       IN  call' = [call EXCEPT ![c] =
                       IF ~Truthy(token) THEN Return(cr, NotConnected)
                       ELSE IF closing
                       THEN Return(cr, OrderOutcome(RetFailure, None,
                                       "Close already in progress", None, None))
                       ELSE Get(cr, "/OpenedOrders", [id |-> token], "OpenedOrders")]
    /\ UNCHANGED <<token, stored>>
    /\ UNCHANGED <<apiKey, mt5Token, storePositions>>

closePosition(c, ticket, volumeToClose) ==
    /\ Idle(c)
    /\ LET cr == NewCall("closePosition",
                         [ticket |-> ticket, volumeToClose |-> volumeToClose])
       IN  call' = [call EXCEPT ![c] =
                       IF Truthy(token)
                       \* getPositions() is entered: its own token test passes too
                       THEN Get(cr, "/OpenedOrders", [id |-> token], "OpenedOrders")
                       ELSE Return(cr, NotConnected)]
    /\ UNCHANGED <<token, stored>>
    /\ UNCHANGED <<apiKey, mt5Token, storePositions>>

\* const positions = await this.getPositions() returned
Fetched(cr, positions) == [cr EXCEPT !.fetched = TRUE, !.positions = positions]

\* the answer to the positions fetch, lines 1052-1193
closePositionFetched(c, r) ==
    /\ At(c, "closePosition", "OpenedOrders")
    /\ LET out == GetPositionsOutcome(r)
           cr == Resume(call[c], r)
           tok == IF out.threw /\ out.clears THEN JNull ELSE token
           positionDetails == FindPosition(out.value, cr.args.ticket)
       IN  /\ token' = tok
           /\ stored' = (IF out.threw /\ out.clears THEN JNull ELSE stored)
           /\ call' = [call EXCEPT ![c] =
                  IF out.threw
                  \* catch (positionError): logged, positionDetails stays null
                  THEN StartProbe(IF out.clears THEN NoteCleared(cr) ELSE cr, None, tok)
                  ELSE IF positionDetails = None
                  THEN Return(Fetched(cr, out.value),
                              OrderOutcome(RetSuccess, JNum(cr.args.ticket),
                                  "Position not found - may already be closed",
                                  None, None))
                  ELSE StartProbe(Fetched(cr, out.value), positionDetails, tok)]
    /\ UNCHANGED <<apiKey, mt5Token, storePositions>>

CloseAnswers ==
    LET
        \* the bodies the bridge answers /OrderClose with
        CloseBodies ==
            { JNum(12345), JStr("wrong volume"),
              JObj([retcode |-> JNum(10009)]),
              JObj([retcode |-> JNum(10013), comment |-> JStr("invalid volume")]),
              JObj([retcode |-> JNum(10004), comment |-> JStr("Trade disabled")]),
              JObj([error |-> JStr("position not found")]),
              JObj([retcode |-> JNum(10013),
                    comment |-> JStr("invalid volume: position not found")]),
              JObj([retcode |-> JNum(10009), comment |-> JStr("already been closed")]),
              JObj([ticket |-> JNum(77), message |-> JNum(1)]) }
        \* an error whose message carries a position text of the bridge
        PositionNotFoundError == Rejected(0, "ERR_BAD_REQUEST", "position not found")
    IN
    {Resolved(200, b) : b \in CloseBodies}
    \cup { Resolved(204, JNull), HttpError(401), SessionExpiredError,
           PositionNotFoundError, Rejected(0, "ERR_NETWORK", "Network Error") }

\* the answer to attempt i
closePositionAttempted(c, r) ==
    /\ At(c, "closePosition", "OrderClose")
    /\ LET out == AttemptOutcome([Resume(call[c], r) EXCEPT !.answered = @ + 1],
                                 r, token)
       IN  /\ call' = [call EXCEPT ![c] = out.cr]
           /\ token' = (IF out.clears THEN JNull ELSE token)
           /\ stored' = (IF out.clears THEN JNull ELSE stored)
    /\ UNCHANGED <<apiKey, mt5Token, storePositions>>

(***************************************************************************)
(* getSymbols, lines 371-414                                               *)
(***************************************************************************)

\* String.prototype.trim, for blanks
RECURSIVE TrimLeft(_)
TrimLeft(s) ==
    IF Len(s) > 0 /\ SubSeq(s, 1, 1) = " " THEN TrimLeft(SubSeq(s, 2, Len(s))) ELSE s
RECURSIVE TrimRight(_)
TrimRight(s) ==
    IF Len(s) > 0 /\ SubSeq(s, Len(s), Len(s)) = " "
    THEN TrimRight(SubSeq(s, 1, Len(s) - 1)) ELSE s

\* s.split(/[\n,]/): cur is the piece being read
RECURSIVE SplitList(_, _)
SplitList(s, cur) ==
    IF Len(s) = 0 THEN <<cur>>
    ELSE IF SubSeq(s, 1, 1) \in {",", "\n"}
    THEN <<cur>> \o SplitList(SubSeq(s, 2, Len(s)), "")
    ELSE SplitList(SubSeq(s, 2, Len(s)), cur \o SubSeq(s, 1, 1))

\* .map(symbol => symbol.trim()).filter(symbol => symbol.length > 0)
RECURSIVE TrimmedNonEmpty(_)
TrimmedNonEmpty(pieces) ==
    LET
        Trim(s) == TrimRight(TrimLeft(s))
    IN
    IF pieces = <<>> THEN <<>>
    ELSE (IF Trim(Head(pieces)) # "" THEN <<Trim(Head(pieces))>> ELSE <<>>)
         \o TrimmedNonEmpty(Tail(pieces))

\* response.data.filter(symbol => typeof symbol === 'string')
RECURSIVE StringItems(_)
StringItems(items) ==
    IF items = <<>> THEN <<>>
    ELSE (IF Head(items).t = "string" THEN <<Head(items).v>> ELSE <<>>)
         \o StringItems(Tail(items))

\* what getSymbols does with the answer r: [threw, clears, value, message]
GetSymbolsOutcome(r) ==
    IF r.kind = "ok"
    THEN [threw |-> FALSE, clears |-> FALSE, message |-> "",
          value |-> IF r.status \in {200, 201} /\ Truthy(r.data)
                    THEN CASE r.data.t = "array" -> StringItems(r.data.v)
                           [] r.data.t = "string" ->
                                 TrimmedNonEmpty(SplitList(r.data.v, ""))
                           [] OTHER -> <<>>
                    ELSE <<>>]
    ELSE [threw |-> TRUE, clears |-> IsAuthError(r), value |-> <<>>,
          message |-> IF r.message # "" THEN r.message
                      ELSE "Failed to retrieve symbols"]

SymbolListAnswers ==
    LET
        \* the bodies the bridge answers /SymbolList with
        SymbolListBodies ==
            { JArr(<<JStr("EURUSD"), JStr("EURUSD.raw")>>),
              JArr(<<JStr("GOLD"), JStr("EURUSD")>>),
              JArr(<<JStr("USD"), JStr("XAUUSD.m"), JStr("GOLD")>>),
              JArr(<<JStr("SILVER"), JNum(5), JStr("XAUUSD.m")>>),
              JStr("USDJPY, EURUSDm\nGOLD"),
              JArr(<<>>), JNull }
    IN
    {Resolved(200, b) : b \in SymbolListBodies}
    \cup {Resolved(204, JNull), HttpError(401), SessionExpiredError,
          Rejected(0, "ERR_NETWORK", "Network Error")}

getSymbols(c) ==
    /\ Idle(c)
    /\ call' = [call EXCEPT ![c] =
                   IF Truthy(token)
                   THEN Get(NewCall("getSymbols", None), "/SymbolList",
                            [id |-> token], "SymbolList")
                   ELSE Return(NewCall("getSymbols", None), <<>>)]
    /\ UNCHANGED <<token, stored>>
    /\ UNCHANGED <<apiKey, mt5Token, storePositions>>

getSymbolsAnswered(c, r) ==
    /\ At(c, "getSymbols", "SymbolList")
    /\ LET out == GetSymbolsOutcome(r)
           cr == Resume(call[c], r)
       IN  IF out.threw
           THEN /\ token' = (IF out.clears THEN JNull ELSE token)
                /\ stored' = (IF out.clears THEN JNull ELSE stored)
                /\ call' = [call EXCEPT ![c] =
                               Throw(IF out.clears THEN NoteCleared(cr) ELSE cr,
                                     out.message)]
           ELSE /\ call' = [call EXCEPT ![c] = Return(cr, out.value)]
                /\ UNCHANGED <<token, stored>>
    /\ UNCHANGED <<apiKey, mt5Token, storePositions>>

(***************************************************************************)
(* subscribeSymbol, lines 417-449                                          *)
(***************************************************************************)

Symbols == {"XAUUSD", "EURUSD.raw", "BTCUSD"}

SubscribeAnswers ==
    { Resolved(200, JBool(TRUE)), Resolved(204, JNull), HttpError(401),
      Rejected(0, "ERR_NETWORK", "Network Error") }

\* what subscribeSymbol returns for the answer r
Subscribed(r) == r.kind = "ok" /\ r.status \in {200, 201}

subscribeSymbol(c, symbol) ==
    /\ Idle(c)
    /\ call' = [call EXCEPT ![c] =
                   IF Truthy(token)
                   THEN Get(NewCall("subscribeSymbol", [symbol |-> symbol]),
                            "/Subscribe", [id |-> token, symbol |-> symbol],
                            "Subscribe")
                   \* throw new Error('Not authenticated...'), caught: return false
                   ELSE Return(NewCall("subscribeSymbol", [symbol |-> symbol]), FALSE)]
    /\ UNCHANGED <<token, stored>>
    /\ UNCHANGED <<apiKey, mt5Token, storePositions>>

subscribeSymbolAnswered(c, r) ==
    /\ At(c, "subscribeSymbol", "Subscribe")
    /\ call' = [call EXCEPT ![c] = Return(Resume(@, r), Subscribed(r))]
    /\ UNCHANGED <<token, stored>>
    /\ UNCHANGED <<apiKey, mt5Token, storePositions>>

(***************************************************************************)
(* findMatchingSymbol, lines 452-530                                       *)
(***************************************************************************)

\* baseSymbol.replace(/\.(raw|m|c|pro|ecn|stp)$/i, "")
NormalizeSymbol(baseSymbol) ==
    LET
        EndsWith(s, suffix) ==
            Len(s) >= Len(suffix) /\ SubSeq(s, Len(s) - Len(suffix) + 1, Len(s)) = suffix
        suffixes == {".raw", ".m", ".c", ".pro", ".ecn", ".stp"}
        hit == {x \in suffixes : EndsWith(ToLowerCase(baseSymbol), x)}
    IN  IF hit = {} THEN baseSymbol
        ELSE SubSeq(baseSymbol, 1,
                    Len(baseSymbol) - Len(CHOOSE x \in hit : TRUE))

\* allSymbols.includes(x)
ListHas(allSymbols, x) == \E j \in 1..Len(allSymbols) : allSymbols[j] = x

\* the last element of the filtered list in the place of the first
LastOf(allSymbols, hits) ==
    IF hits = {} THEN ""
    ELSE allSymbols[CHOOSE j \in hits : \A k \in hits : j >= k]

\* allSymbols.filter(pred)[0], "" when the filter is empty; hits is the set
\* of indices that pass
FirstOf(allSymbols, hits) ==
    IF hits = {} THEN ""
    ELSE allSymbols[CHOOSE j \in hits : \A k \in hits : j <= k]

\* a resolver that tries the normalized symbol before the symbol as given
MatchNormalizedFirst(baseSymbol, allSymbols) ==
    LET normalizedSymbol == NormalizeSymbol(baseSymbol)
    IN  IF ListHas(allSymbols, normalizedSymbol) THEN normalizedSymbol
        ELSE IF ListHas(allSymbols, baseSymbol) THEN baseSymbol
        ELSE FirstOf(allSymbols,
                     {j \in 1..Len(allSymbols) :
                         \/ Includes(allSymbols[j], normalizedSymbol)
                         \/ Includes(normalizedSymbol, allSymbols[j])})

\* a match that takes the symbol without its suffix whether or not the
\* broker lists it
MatchSymbolUnlisted(baseSymbol, allSymbols) ==
    IF ListHas(allSymbols, baseSymbol) THEN baseSymbol ELSE NormalizeSymbol(baseSymbol)

\* the match for baseSymbol in the broker's list, lines 468-525; "" is null
MatchSymbol(baseSymbol, allSymbols) ==
    LET normalizedSymbol == NormalizeSymbol(baseSymbol)
        idx == 1..Len(allSymbols)
        goldCandidates ==
            {j \in idx : \/ Includes(ToLowerCase(allSymbols[j]), "xau")
                         \/ Includes(ToLowerCase(allSymbols[j]), "gold")}
        silverCandidates ==
            {j \in idx : \/ Includes(ToLowerCase(allSymbols[j]), "xag")
                         \/ Includes(ToLowerCase(allSymbols[j]), "silver")}
        partialMatches ==
            {j \in idx : \/ Includes(allSymbols[j], normalizedSymbol)
                         \/ Includes(normalizedSymbol, allSymbols[j])}
    IN
    IF Len(allSymbols) = 0 THEN ""
    ELSE IF ListHas(allSymbols, baseSymbol) THEN baseSymbol
    ELSE IF ListHas(allSymbols, normalizedSymbol) THEN normalizedSymbol
    ELSE IF /\ Includes(normalizedSymbol, "XAU") \/ Includes(normalizedSymbol, "GOLD")
            /\ goldCandidates # {}
    THEN FirstOf(allSymbols, goldCandidates)
    ELSE IF /\ Includes(normalizedSymbol, "XAG") \/ Includes(normalizedSymbol, "SILVER")
            /\ silverCandidates # {}
    THEN FirstOf(allSymbols, silverCandidates)
    ELSE FirstOf(allSymbols, partialMatches)

\* what findMatchingSymbol returns once its getSymbols() call has been
\* answered with r: an exception of getSymbols is caught and gives null
FindMatchingSymbolOutcome(baseSymbol, r) ==
    LET out == GetSymbolsOutcome(r)
    IN  [clears |-> out.threw /\ out.clears, allSymbols |-> out.value,
         match |-> IF out.threw THEN "" ELSE MatchSymbol(baseSymbol, out.value)]

(***************************************************************************)
(* sendOrder, lines 838-960                                                *)
(***************************************************************************)

\* parameters that always carry the four optional fields
OrderSendParamsAll(tok, actualSymbol, orderRequest) ==
    LET orZero(x) == IF x = None THEN Zero ELSE x
    IN  [id |-> tok, symbol |-> actualSymbol,
         operation |-> IF orderRequest.action = "BUY" THEN "Buy" ELSE "Sell",
         volume |-> orderRequest.volume, slippage |-> 10, expertID |-> 0,
         price |-> orZero(orderRequest.price), stoploss |-> orZero(orderRequest.sl),
         takeprofit |-> orZero(orderRequest.tp), comment |-> orderRequest.comment]

\* the parameters of the /OrderSend request, lines 874-901; an optional
\* field of the request that is absent is None
OrderSendParams(tok, actualSymbol, orderRequest) ==
    LET base == [id |-> tok, symbol |-> actualSymbol,
                 operation |-> IF orderRequest.action = "BUY" THEN "Buy" ELSE "Sell",
                 volume |-> orderRequest.volume, slippage |-> 10, expertID |-> 0]
        positive(x) == x # None /\ IsPositive(x)
        withPrice == IF positive(orderRequest.price)
                     THEN base @@ [price |-> orderRequest.price] ELSE base
        withSl == IF positive(orderRequest.sl)
                  THEN withPrice @@ [stoploss |-> orderRequest.sl] ELSE withPrice
        withTp == IF positive(orderRequest.tp)
                  THEN withSl @@ [takeprofit |-> orderRequest.tp] ELSE withSl
    IN  IF orderRequest.comment # ""
        THEN withTp @@ [comment |-> orderRequest.comment] ELSE withTp

\* the order requests of the callers; comment "" stands for no comment
OrderRequests ==
    { [symbol |-> sym, action |-> "BUY", volume |-> Vol(0, 10000000),
       price |-> None, sl |-> None, tp |-> None, comment |-> ""] :
          sym \in Symbols }
    \cup { [symbol |-> "XAUUSD", action |-> "SELL", volume |-> Vol(1, 0),
            price |-> Zero, sl |-> Vol(1900, 0), tp |-> None, comment |-> "bot"],
           [symbol |-> "EURUSD.raw", action |-> "BUY", volume |-> Vol(0, 500000000),
            price |-> Vol(1, 100000000), sl |-> Zero, tp |-> Vol(1, 200000000),
            comment |-> ""] }

OrderSendAnswers ==
    LET
        \* the bodies the bridge answers /OrderSend with
        OrderSendBodies ==
            { JNull, JNum(12345), JNum(-5), JStr("Order placed"),
              JObj([retcode |-> JNum(10009), order |-> JNum(9)]),
              JObj([retcode |-> JNum(10004), comment |-> JStr("Trade disabled")]),
              JObj([error |-> JStr("Invalid token")]) }
    IN
    {Resolved(200, b) : b \in OrderSendBodies}
    \cup {Resolved(204, JNull), HttpError(401), SessionExpiredError,
          Rejected(0, "ERR_NETWORK", "Network Error")}

\* the outcome objects sendOrder builds itself
SendFailure(comment) == ParseResult(RetFailure, JUndefined, JStr(comment))

\* lines 874-918: the /OrderSend request goes out with the token as it is now
SendOrderRequest(cr, tok, actualSymbol) ==
    Get([cr EXCEPT !.actualSymbol = actualSymbol], "/OrderSend",
        OrderSendParams(tok, actualSymbol, cr.args), "OrderSend")

sendOrder(c, orderRequest) ==
    /\ Idle(c)
    /\ call' = [call EXCEPT ![c] =
                   IF Truthy(token)
                   \* findMatchingSymbol -> getSymbols: their token tests pass too
                   THEN Get(NewCall("sendOrder", orderRequest), "/SymbolList",
                            [id |-> token], "SymbolList")
                   ELSE Return(NewCall("sendOrder", orderRequest),
                               SendFailure("Not connected to MT5"))]
    /\ UNCHANGED <<token, stored>>
    /\ UNCHANGED <<apiKey, mt5Token, storePositions>>

\* the answer to the symbol list: lines 858-872, then 874-918 unless the
\* subscription request is awaited first
sendOrderResolved(c, r) ==
    /\ At(c, "sendOrder", "SymbolList")
    /\ LET found == FindMatchingSymbolOutcome(call[c].args.symbol, r)
           tok == IF found.clears THEN JNull ELSE token
           resumed == [Resume(call[c], r) EXCEPT !.allSymbols = found.allSymbols]
           cr == IF found.clears THEN NoteCleared(resumed) ELSE resumed
       IN  /\ token' = tok
           /\ stored' = (IF found.clears THEN JNull ELSE stored)
           /\ call' = [call EXCEPT ![c] =
                  IF found.match # "" /\ Truthy(tok)
                  THEN Get([cr EXCEPT !.actualSymbol = found.match], "/Subscribe",
                           [id |-> tok, symbol |-> found.match], "Subscribe")
                  \* matched but no token: subscribeSymbol returns false at once
                  ELSE IF found.match # ""
                  THEN SendOrderRequest(cr, tok, found.match)
                  ELSE SendOrderRequest(cr, tok, cr.args.symbol)]
    /\ UNCHANGED <<apiKey, mt5Token, storePositions>>

\* a sendOrder that gives up when the subscription failed
sendOrderSubscribedOnly(c, r) ==
    /\ At(c, "sendOrder", "Subscribe")
    /\ call' = [call EXCEPT ![c] =
                   IF Subscribed(r)
                   THEN SendOrderRequest(Resume(@, r), token, @.actualSymbol)
                   ELSE Return(Resume(@, r), SendFailure("Failed to subscribe"))]
    /\ UNCHANGED <<token, stored>>
    /\ UNCHANGED <<apiKey, mt5Token, storePositions>>

\* the answer to the subscription: subscribed or not, the order goes out
sendOrderSubscribed(c, r) ==
    /\ At(c, "sendOrder", "Subscribe")
    /\ call' = [call EXCEPT ![c] =
                   SendOrderRequest(Resume(@, r), token, @.actualSymbol)]
    /\ UNCHANGED <<token, stored>>
    /\ UNCHANGED <<apiKey, mt5Token, storePositions>>

\* a catch block that hands the error on to the caller
SendOrderRethrown(cr, r) == Throw(cr, r.message)

\* the catch block's return, lines 954-958
SendOrderCaught(cr, r) ==
    Return(cr, SendFailure(IF r.message # "" THEN r.message
                           ELSE "Failed to send order"))

\* the answer to /OrderSend, lines 927-959
sendOrderAnswered(c, r) ==
    /\ At(c, "sendOrder", "OrderSend")
    /\ LET cr == Resume(call[c], r)
           clears == r.kind = "error" /\ IsAuthError(r)
       IN  /\ token' = (IF clears THEN JNull ELSE token)
           /\ stored' = (IF clears THEN JNull ELSE stored)
           /\ call' = [call EXCEPT ![c] =
                  IF r.kind = "error"
                  THEN SendOrderCaught(IF clears THEN NoteCleared(cr) ELSE cr, r)
                  ELSE IF r.status \in {200, 201}
                  THEN Return(cr, parseOrderResponse(r.data, "OrderSend"))
                  ELSE Return(cr, SendFailure("Order failed with HTTP status: "
                                              \o IntToString(r.status)))]
    /\ UNCHANGED <<apiKey, mt5Token, storePositions>>

(***************************************************************************)
(* getQuote, lines 963-1038                                                *)
(***************************************************************************)

GetQuoteAnswers ==
    {Resolved(200, b) :
        b \in { JObj([bid |-> JDec(Vol(1, 100000000)),
                      ask |-> JDec(Vol(1, 100200000)),
                      time |-> JStr("2025-06-19T12:00:00Z")]),
                JObj([bid |-> JStr("1.1")]), JNull }}
    \cup {Resolved(204, JNull), HttpError(401),
          Rejected(0, "ERR_NETWORK", "Network Error")}

GetQuoteRequest(cr, tok, actualSymbol) ==
    Get([cr EXCEPT !.actualSymbol = actualSymbol], "/GetQuote",
        [id |-> tok, symbol |-> actualSymbol, msNotOlder |-> 0], "GetQuote")

getQuote(c, symbol) ==
    /\ Idle(c)
    /\ call' = [call EXCEPT ![c] =
                   IF Truthy(token)
                   THEN Get(NewCall("getQuote", [symbol |-> symbol]), "/SymbolList",
                            [id |-> token], "SymbolList")
                   ELSE Return(NewCall("getQuote", [symbol |-> symbol]), None)]
    /\ UNCHANGED <<token, stored>>
    /\ UNCHANGED <<apiKey, mt5Token, storePositions>>

getQuoteResolved(c, r) ==
    /\ At(c, "getQuote", "SymbolList")
    /\ LET found == FindMatchingSymbolOutcome(call[c].args.symbol, r)
           tok == IF found.clears THEN JNull ELSE token
           resumed == [Resume(call[c], r) EXCEPT !.allSymbols = found.allSymbols]
           cr == IF found.clears THEN NoteCleared(resumed) ELSE resumed
       IN  /\ token' = tok
           /\ stored' = (IF found.clears THEN JNull ELSE stored)
           /\ call' = [call EXCEPT ![c] =
                  IF found.match # "" /\ Truthy(tok)
                  THEN Get([cr EXCEPT !.actualSymbol = found.match], "/Subscribe",
                           [id |-> tok, symbol |-> found.match], "Subscribe")
                  ELSE IF found.match # ""
                  THEN GetQuoteRequest(cr, tok, found.match)
                  ELSE GetQuoteRequest(cr, tok, cr.args.symbol)]
    /\ UNCHANGED <<apiKey, mt5Token, storePositions>>

getQuoteSubscribed(c, r) ==
    /\ At(c, "getQuote", "Subscribe")
    /\ call' = [call EXCEPT ![c] =
                   GetQuoteRequest(Resume(@, r), token, @.actualSymbol)]
    /\ UNCHANGED <<token, stored>>
    /\ UNCHANGED <<apiKey, mt5Token, storePositions>>

\* the answer to /GetQuote, lines 1006-1037
getQuoteAnswered(c, r) ==
    LET
        \* typeof x === 'number'
        IsNumber(x) == x.t \in {"number", "decimal"}
    IN
    /\ At(c, "getQuote", "GetQuote")
    /\ LET cr == Resume(call[c], r)
           clears == r.kind = "error" /\ IsAuthError(r)
       IN  /\ token' = (IF clears THEN JNull ELSE token)
           /\ stored' = (IF clears THEN JNull ELSE stored)
           /\ call' = [call EXCEPT ![c] =
                  IF r.kind = "error"
                  THEN Throw(IF clears THEN NoteCleared(cr) ELSE cr,
                             IF r.message # "" THEN r.message
                             ELSE "Failed to retrieve quote")
                  ELSE IF /\ r.status \in {200, 201} /\ Truthy(r.data)
                          /\ r.data.t = "object"
                          /\ IsNumber(Field(r.data, "bid"))
                          /\ IsNumber(Field(r.data, "ask"))
                  THEN Return(cr, [bid |-> Field(r.data, "bid").v,
                                   ask |-> Field(r.data, "ask").v])
                  ELSE Return(cr, None)]
    /\ UNCHANGED <<apiKey, mt5Token, storePositions>>

(***************************************************************************)
(* getAccountInfo, lines 288-368: /AccountSummary and /AccountDetails are   *)
(* requested together (Promise.all); a failure of /AccountDetails is       *)
(* replaced by {status: 404, data: null}, a failure of /AccountSummary     *)
(* rejects the whole at once                                               *)
(***************************************************************************)

AccountSummaryAnswers ==
    {Resolved(200, b) :
        b \in {JObj([balance |-> JNum(1000), equity |-> JNum(1010)]), JNull}}
    \cup {Resolved(204, JNull), HttpError(401), SessionExpiredError,
          Rejected(0, "ERR_NETWORK", "Network Error")}
AccountDetailsAnswers ==
    { Resolved(200, JObj([Login |-> JNum(5012345), Leverage |-> JNum(100)])),
      HttpError(401), HttpError(404) }

getAccountInfo(c) ==
    /\ Idle(c)
    /\ call' = [call EXCEPT ![c] =
                   IF Truthy(token)
                   THEN Get(Get(NewCall("getAccountInfo", None), "/AccountSummary",
                                [id |-> token], "Account"),
                            "/AccountDetails", [id |-> token], "Account")
                   ELSE Return(NewCall("getAccountInfo", None), None)]
    /\ UNCHANGED <<token, stored>>
    /\ UNCHANGED <<apiKey, mt5Token, storePositions>>

\* both answers are in: lines 326-351
AccountInfoResult(cr) ==
    LET summaryResponse == cr.summaryResponse
        detailsResponse == cr.detailsResponse
        detailsOk == detailsResponse.status \in {200, 201}
    IN  IF summaryResponse.status \in {200, 201} /\ Truthy(summaryResponse.data)
        THEN Return(cr, [balance |-> OrElse(Field(summaryResponse.data, "balance"),
                                            JNum(0)),
                         leverage |-> IF detailsOk
                                      THEN OrElse(Field(detailsResponse.data, "Leverage"),
                                                  JNum(1))
                                      ELSE JNum(1)])
        ELSE Return(cr, None)

getAccountInfoDetails(c, r) ==
    /\ At(c, "getAccountInfo", "Account")
    /\ call[c].detailsResponse = None
    /\ LET cr == [Resume(call[c], r) EXCEPT
                     !.detailsResponse =
                         IF r.kind = "ok" THEN r ELSE Resolved(404, JNull)]
       IN  call' = [call EXCEPT ![c] =
                       IF cr.summaryResponse # None THEN AccountInfoResult(cr) ELSE cr]
    /\ UNCHANGED <<token, stored>>
    /\ UNCHANGED <<apiKey, mt5Token, storePositions>>

getAccountInfoSummary(c, r) ==
    /\ At(c, "getAccountInfo", "Account")
    /\ call[c].summaryResponse = None
    /\ LET cr == Resume(call[c], r)
           clears == r.kind = "error" /\ IsAuthError(r)
           got == [cr EXCEPT !.summaryResponse = r]
       IN  /\ token' = (IF clears THEN JNull ELSE token)
           /\ stored' = (IF clears THEN JNull ELSE stored)
           /\ call' = [call EXCEPT ![c] =
                  IF r.kind = "error"
                  THEN IF clears
                       THEN Throw(NoteCleared(cr), "Session expired. Please login again.")
                       ELSE Throw(cr, IF r.message # "" THEN r.message
                                      ELSE "Failed to retrieve account information")
                  ELSE IF got.detailsResponse # None THEN AccountInfoResult(got)
                  ELSE got]
    /\ UNCHANGED <<apiKey, mt5Token, storePositions>>

(***************************************************************************)
(* The adapter, its calls made one after the other                         *)
(***************************************************************************)

Next ==
    \E c \in SequentialSlots :
        \/ setToken(c, TokenA)
        \/ clearToken(c)
        \/ \E cred \in Credentials : connect(c, cred)
        \/ \E r \in ConnectAnswers : connectAnswered(c, r)
        \/ disconnect(c)
        \/ \E r \in DisconnectAnswers : disconnectAnswered(c, r)
        \/ checkConnection(c)
        \/ \E r \in CheckConnectAnswers : checkConnectionAnswered(c, r)
        \/ getAccountInfo(c)
        \/ \E r \in AccountSummaryAnswers : getAccountInfoSummary(c, r)
        \/ \E r \in AccountDetailsAnswers : getAccountInfoDetails(c, r)
        \/ getSymbols(c)
        \/ \E r \in SymbolListAnswers : getSymbolsAnswered(c, r)
        \/ \E sym \in Symbols : subscribeSymbol(c, sym)
        \/ \E r \in SubscribeAnswers : subscribeSymbolAnswered(c, r)
        \/ getPositions(c)
        \/ \E r \in PositionsAnswers : getPositionsAnswered(c, r)
        \/ \E sym \in Symbols : getQuote(c, sym)
        \/ \E r \in SymbolListAnswers : getQuoteResolved(c, r)
        \/ \E r \in SubscribeAnswers : getQuoteSubscribed(c, r)
        \/ \E r \in GetQuoteAnswers : getQuoteAnswered(c, r)
        \/ \E req \in OrderRequests : sendOrder(c, req)
        \/ \E r \in SymbolListAnswers : sendOrderResolved(c, r)
        \/ \E r \in SubscribeAnswers : sendOrderSubscribed(c, r)
        \/ \E r \in OrderSendAnswers : sendOrderAnswered(c, r)
        \* volumes a caller passes: none, 0, 0.01, 0.0100005
        \/ \E t \in 1..MaxTicket,
              v \in {None, Zero, Vol(0, 10000000), Vol(0, 10000500)} :
               closePosition(c, t, v)
        \/ \E r \in PositionsAnswers : closePositionFetched(c, r)
        \/ \E r \in CloseAnswers : closePositionAttempted(c, r)

Spec == Init /\ [][Next]_vars

(***************************************************************************)
(* closePosition up to its first attempt, over a wider range of volumes:   *)
(* the candidate list of lines 1076-1165 for every combination of a        *)
(* caller's volume, a position's lots and a position's raw volume          *)
(***************************************************************************)

\* the lots are 0 (absent), 0.01, 0.5, 1, 10, 999 and the raw volumes
\* 0 (absent), 0.01, 0.0100005, 0.99999997, 1, 1000, 100000
CandidateAnswers ==
    {Resolved(200, JArr(<<Order(1, "Buy", l, v, 5)>>)) :
        l \in {Zero, Vol(0, 10000000), Vol(0, 500000000), Vol(1, 0), Vol(10, 0),
               Vol(999, 0)},
        v \in {Zero, Vol(0, 10000000), Vol(0, 10000500), Vol(0, 999999970),
               Vol(1, 0), Vol(1000, 0), Vol(100000, 0)}}

\* the caller's volume is none, 0, 0.01, 0.0100005, 10, 10.0000008
CandidateNext ==
    \E c \in SequentialSlots :
        \/ \E v \in {None, Zero, Vol(0, 10000000), Vol(0, 10000500), Vol(10, 0),
                      Vol(10, 800)} :
               closePosition(c, 1, v)
        \/ \E r \in CandidateAnswers : closePositionFetched(c, r)

CandidateSpec == Init /\ [][CandidateNext]_vars

(***************************************************************************)
(* closePosition calls that overlap: two callers close ticket 1, and the   *)
(* steps of the two calls interleave at their awaits                       *)
(***************************************************************************)

ConcurrentNext ==
    \E c \in Slots :
        \/ closePosition(c, 1, None)
        \/ \E r \in { Resolved(200, JArr(<<Order(1, "Buy", Vol(0, 10000000),
                                                 Vol(0, 10000000), 5)>>)),
                       Resolved(200, JArr(<<>>)), HttpError(500) } :
               closePositionFetched(c, r)
        \/ \E r \in { Resolved(200, JObj([retcode |-> JNum(10009)])),
                       Resolved(200, JObj([retcode |-> JNum(10013),
                                           comment |-> JStr("invalid volume")])),
                       Resolved(200, JObj([error |-> JStr("position not found")])) } :
               closePositionAttempted(c, r)

ConcurrentSpec == Init /\ [][ConcurrentNext]_vars

(***************************************************************************)
(* The adapter of a build with or without its API key: sessions are opened *)
(* and closed                                                              *)
(***************************************************************************)

ConfigInit ==
    /\ Constructed
    /\ apiKey \in ApiKeys
    /\ ModuleLoaded

ConfigNext ==
    \E c \in SequentialSlots :
        \/ \E cred \in Credentials : connect(c, cred)
        \/ \E r \in ConnectAnswers : connectAnswered(c, r)
        \/ disconnect(c)
        \/ \E r \in DisconnectAnswers : disconnectAnswered(c, r)

ConfigSpec == ConfigInit /\ [][ConfigNext]_vars

(***************************************************************************)
(* parseOrderResponse over a wider range of bodies: two sendOrder calls    *)
(* whose symbol list comes back empty and whose /OrderSend request is      *)
(* answered 200 with each of the bodies                                    *)
(***************************************************************************)

\* objects with every combination of these properties (None: the property
\* is absent), objects with a message, and bodies of the other types
NormalizerBodies ==
    { JObj([k \in {x \in DOMAIN a : a[x] # None} |-> a[k]]) :
        a \in [ticket : {None, JNum(0), JNum(77)},
               retcode : {None, JNum(10009), JStr("10009"), JNum(10004)},
               order : {None, JNum(9)},
               error : {None, JStr("x")},
               success : {None, JBool(TRUE), JBool(FALSE)}] }
    \cup { JObj([message |-> JStr("Order placed")]),
           JObj([message |-> JStr("invalid price")]),
           JObj([message |-> JNum(1)]),
           JObj([message |-> JStr("access denied")]),
           JObj([message |-> JStr("pending")]),
           JObj([message |-> JStr("Failed, not executed")]),
           JObj([order |-> JNum(9), message |-> JStr("request failed")]),
           JObj([order |-> JNum(9), message |-> JStr("Order executed")]),
           JObj([retcode |-> JNum(10009), error |-> JStr("x"),
                 message |-> JStr("failed")]),
           JObj([retcode |-> JNum(10013), comment |-> JStr("invalid volume")]),
           JObj([retcode |-> JStr("abc")]),
           JObj([Error |-> JStr("E")]),
           JObj([ticket |-> JStr("5")]),
           JObj([order |-> JStr("12")]) }
    \cup { JNull, JUndefined, JArr(<<>>), JBool(TRUE), JBool(FALSE),
           JStr(""), JStr("12345"), JStr("-3 lots"), JStr("OK"),
           JStr("Order placed"), JStr("access denied"), JStr("pending"),
           JStr("invalid price"), JStr("Failed, not executed"),
           JNum(12345), JNum(1), JNum(0), JNum(-1), JNum(-5), JNum(-10009) }

NormalizerNext ==
    \E c \in Slots :
        \/ \E req \in {x \in OrderRequests : x.symbol = "BTCUSD"} : sendOrder(c, req)
        \/ sendOrderResolved(c, Resolved(200, JArr(<<>>)))
        \/ \E b \in NormalizerBodies : sendOrderAnswered(c, Resolved(200, b))

NormalizerSpec == Init /\ [][NormalizerNext]_vars

(***************************************************************************)
(* findMatchingSymbol over a wider range of symbols and broker lists: a    *)
(* getQuote call up to the answer of its symbol list                       *)
(***************************************************************************)

\* the broker lists of up to two symbols
ResolverLists ==
    LET pool == {"EURUSD", "EURUSD.raw", "XAUUSD", "GOLD", "USD", "SILVER", "BTCUSD.x"}
    IN  {<<>>} \cup {<<JStr(x)>> : x \in pool}
        \cup {<<JStr(x), JStr(y)>> : x \in pool, y \in pool}

ResolverNext ==
    \E c \in SequentialSlots :
        \/ \E sym \in {"EURUSD.raw", "XAUUSD", "XAUUSD.raw", "GOLD.m", "XAGUSD",
                        "BTCUSD"} :
               getQuote(c, sym)
        \/ \E list \in ResolverLists : getQuoteResolved(c, Resolved(200, JArr(list)))

ResolverSpec == Init /\ [][ResolverNext]_vars

(***************************************************************************)
(* Properties                                                              *)
(***************************************************************************)

\* the /OrderClose requests a call has issued
CloseRequests(cr) == {j \in 1..Len(cr.reqs) : cr.reqs[j].path = "/OrderClose"}

\* the call has returned an outcome object with this retcode
Returned(cr, retcode) ==
    cr.pc = "done" /\ cr.res.kind = "return" /\ cr.res.value.retcode = retcode

\* C1: whenever the positions fetch of a closePosition(ticket) call succeeds
\* and the list it gives holds no position with the ticket, the call has
\* returned retcode 10009 and has issued no /OrderClose request.
C1_MissingTicketSucceedsUnsent ==
    \A c \in Slots :
        LET cr == call[c]
        IN  ( /\ cr.op = "closePosition" /\ cr.fetched
              /\ \A j \in 1..Len(cr.positions) : cr.positions[j].ticket # cr.args.ticket )
            => Returned(cr, RetSuccess) /\ CloseRequests(cr) = {}

\* a closePosition call whose fetch gave positions, none with the ticket
C1_Witness ==
    \E c \in Slots :
        /\ call[c].op = "closePosition" /\ call[c].fetched
        /\ Len(call[c].positions) > 0
        /\ \A j \in 1..Len(call[c].positions) :
               call[c].positions[j].ticket # call[c].args.ticket
        /\ Returned(call[c], RetSuccess)

\* the last answer of the call is a 200/201 answer to an /OrderClose attempt
AttemptAnswered(cr) ==
    /\ cr.op = "closePosition" /\ cr.answered >= 1
    /\ cr.last.kind = "ok" /\ cr.last.status \in {200, 201}

\* the call stopped at the attempt answered last: it has returned and sent
\* no attempt after it
StoppedAtLastAttempt(cr) ==
    Returned(cr, RetSuccess) /\ Cardinality(CloseRequests(cr)) = cr.answered

CandidatesBuilt(cr) ==
    cr.op = "closePosition" /\ cr.positionDetails # None /\ cr.i >= 1

\* C3: for a found position with lots V > 0, whatever the caller's volume
\* and the raw volume, uniqueFormats is finite (at most 19 entries: the
\* caller's volume, lots, raw volume, ten scaled lots, six scaled raw
\* volumes), no two of its values are closer than 0.000001, and one is
\* within 0.000001 of V.
C3_CandidatesDistinctWithLots ==
    \A c \in Slots :
        LET cr == call[c]
            uniqueFormats == cr.uniqueFormats
        IN  (CandidatesBuilt(cr) /\ IsPositive(cr.positionDetails.volume))
            => /\ Len(uniqueFormats) <= 19
               /\ \A j, k \in 1..Len(uniqueFormats) :
                      j # k => ~Near(uniqueFormats[j].value, uniqueFormats[k].value)
               /\ \E j \in 1..Len(uniqueFormats) :
                      Near(uniqueFormats[j].value, cr.positionDetails.volume)

\* a list from which the filter removed the lots, the caller's volume being
\* within the tolerance of them and not equal to them
C3_Witness ==
    \E c \in Slots :
        /\ CandidatesBuilt(call[c]) /\ IsPositive(call[c].positionDetails.volume)
        /\ call[c].args.volumeToClose # None
        /\ call[c].args.volumeToClose # call[c].positionDetails.volume
        /\ Near(call[c].args.volumeToClose, call[c].positionDetails.volume)
        /\ IsPositive(call[c].positionDetails.rawVolume)
        /\ Len(call[c].uniqueFormats) <
               Len(VolumeFormats(call[c].args.volumeToClose, call[c].positionDetails))

\* the factors of claim C4, as powers of ten: 1000, 10000, 100000, 0.001,
\* 0.0001, 0.00001, 10, 100, 0.1, 0.01 for the lots and 1000, 0.001, 100,
\* 0.01, 10, 0.1 for the raw volume
StatedLotsExponents == <<3, 4, 5, -3, -4, -5, 1, 2, -1, -2>>
StatedRawExponents == <<3, -3, 2, -2, 1, -1>>

\* base * 10^e for each e of exps in turn, those within (0, 1000000)
RECURSIVE ScaledInRange(_, _)
ScaledInRange(base, exps) ==
    IF exps = <<>> THEN <<>>
    ELSE LET x == Scale(base, Head(exps))
         IN  (IF IsPositive(x) /\ BelowLimit(x) THEN <<x>> ELSE <<>>)
             \o ScaledInRange(base, Tail(exps))

\* the values in the order claim C4 states: P the caller's volume (None when
\* absent), V the lots, R the raw volume (0 when the bridge gave none)
StatedOrder(P, V, R) ==
    (IF P # None /\ IsPositive(P) THEN <<P>> ELSE <<>>)
    \o (IF IsPositive(V) THEN <<V>> ELSE <<>>)
    \o (IF IsPositive(R) /\ R # V THEN <<R>> ELSE <<>>)
    \o (IF IsPositive(V) THEN ScaledInRange(V, StatedLotsExponents) ELSE <<>>)
    \o (IF IsPositive(R) THEN ScaledInRange(R, StatedRawExponents) ELSE <<>>)

\* a can be had from b by leaving elements out
RECURSIVE IsSubsequence(_, _)
IsSubsequence(a, b) ==
    IF a = <<>> THEN TRUE
    ELSE IF b = <<>> THEN FALSE
    ELSE IF Head(a) = Head(b) THEN IsSubsequence(Tail(a), Tail(b))
    ELSE IsSubsequence(a, Tail(b))

\* C4: for a found position with some volume known, the values of
\* uniqueFormats are, in this order and with nothing moved, values of the
\* sequence: caller's volume (if > 0), lots, raw volume if different, lots
\* times 1000, 10000, 100000, 0.001, 0.0001, 0.00001, 10, 100, 0.1, 0.01,
\* then the scaled raw volumes; and every value of that sequence with no
\* earlier value within 0.000001 of it is kept.
C4_CandidatesInStatedOrder ==
    \A c \in Slots :
        LET cr == call[c]
            order == IF CandidatesBuilt(cr)
                     THEN StatedOrder(cr.args.volumeToClose, cr.positionDetails.volume,
                                      cr.positionDetails.rawVolume)
                     ELSE <<>>
            values == [j \in 1..Len(cr.uniqueFormats) |-> cr.uniqueFormats[j].value]
        IN  (CandidatesBuilt(cr) /\ order # <<>>)
            => /\ IsSubsequence(values, order)
               /\ \A j \in 1..Len(order) :
                      (\A k \in 1..(j - 1) : ~Near(order[k], order[j]))
                      => \E m \in 1..Len(values) : values[m] = order[j]

\* a list with the caller's volume, the lots, a different raw volume and
\* scaled values of both, some stated value having been left out as a
\* duplicate
C4_Witness ==
    \E c \in Slots :
        LET cr == call[c]
        IN  /\ CandidatesBuilt(cr)
            /\ cr.args.volumeToClose # None /\ IsPositive(cr.args.volumeToClose)
            /\ IsPositive(cr.positionDetails.volume)
            /\ IsPositive(cr.positionDetails.rawVolume)
            /\ cr.positionDetails.rawVolume # cr.positionDetails.volume
            /\ Len(cr.uniqueFormats) >= 12
            /\ Len(cr.uniqueFormats) <
                   Len(StatedOrder(cr.args.volumeToClose, cr.positionDetails.volume,
                                   cr.positionDetails.rawVolume))
            /\ cr.uniqueFormats[1].value = cr.args.volumeToClose
            /\ cr.uniqueFormats[2].value = cr.positionDetails.volume
            /\ cr.uniqueFormats[3].value = cr.positionDetails.rawVolume

\* the operations that call the bridge with the session token
BridgeOperations ==
    {"getAccountInfo", "getSymbols", "subscribeSymbol", "getPositions", "getQuote",
     "sendOrder", "closePosition", "checkConnection"}

\* no token in memory, none in the store
TokenCleared == token = JNull /\ stored = JNull

\* C5 as stated: when a call of an operation that calls the bridge has
\* returned or thrown and one of its requests was answered with HTTP 401,
\* the token is none in memory and in the store.
C5_Http401ClearsToken ==
    \A c \in Slots :
        (call[c].op \in BridgeOperations /\ call[c].pc = "done" /\ call[c].got401)
        => TokenCleared

\* C6 as stated: once a call has detected an authentication failure and
\* cleared the token, it issues no further request: the requests it has
\* issued are those it had issued when it cleared the token.
C6_NoRequestAfterClearing ==
    \A c \in Slots :
        call[c].clearedAt >= 0 => Len(call[c].reqs) = call[c].clearedAt

WriteOperations == {"sendOrder", "closePosition"}

\* the outcome object holds a numeric retcode and a message
StructuredOutcome(cr) ==
    /\ cr.res.kind = "return"
    /\ cr.res.value.retcode \in Nat
    /\ IF cr.op = "sendOrder"
       THEN cr.res.value.comment.t \notin {"undefined", "null"}
       ELSE cr.res.value.comment # ""

\* C7 as stated: sendOrder and closePosition never throw, return an outcome
\* with a retcode and a message, and a transport exception at any request of
\* the call yields retcode 10004.
C7_WritesFailOnAnyTransportError ==
    \A c \in Slots :
        (call[c].op \in WriteOperations /\ call[c].pc = "done")
        => /\ StructuredOutcome(call[c])
           /\ call[c].transportFailed => call[c].res.value.retcode = RetFailure

\* C7 amended: sendOrder and closePosition never throw, return an outcome
\* with a retcode and a message, and a transport exception at the last
\* request of the call (the /OrderSend request, the /OrderClose request of
\* the last candidate) yields retcode 10004.
C7_WritesFailOnLastTransportError ==
    \A c \in Slots :
        (call[c].op \in WriteOperations /\ call[c].pc = "done")
        => /\ StructuredOutcome(call[c])
           /\ call[c].last \in TransportErrors
                  => call[c].res.value.retcode = RetFailure

\* a sendOrder whose symbol list and subscription were answered and whose
\* /OrderSend request met a transport exception
C7_Witness ==
    \E c \in Slots :
        /\ call[c].op = "sendOrder" /\ call[c].pc = "done"
        /\ Len(call[c].reqs) = 3
        /\ call[c].reqs[3].path = "/OrderSend"
        /\ call[c].last \in TransportErrors
        /\ call[c].res.kind = "return"
        /\ call[c].res.value.retcode = RetFailure

\* the last answer of the call is an exception of an /OrderClose attempt
AttemptFailed(cr) ==
    cr.op = "closePosition" /\ cr.answered >= 1 /\ cr.last.kind = "error"

\* C8 as stated: an authentication failure on a candidate attempt (HTTP 401
\* or one of the three texts) ends the probe at once with the session
\* cleared; any other exception on an attempt that is not the last is
\* followed by the next candidate.
C8_AuthFailureAbortsProbe ==
    \A c \in Slots :
        LET cr == call[c]
        IN  AttemptFailed(cr)
            => IF cr.last.status = 401 \/ IsAuthMessage(cr.last.message)
               THEN /\ cr.pc = "done"
                    /\ Cardinality(CloseRequests(cr)) = cr.answered
                    /\ TokenCleared
               ELSE cr.answered < Len(cr.uniqueFormats)
                    => /\ cr.pc = "OrderClose"
                       /\ Cardinality(CloseRequests(cr)) = cr.answered + 1

\* C9 as stated: when disconnect() has returned, the token is none in memory
\* and in the store, whatever the answer to /Disconnect was.
C9_DisconnectClearsToken ==
    \A c \in Slots :
        (call[c].op = "disconnect" /\ call[c].pc = "done") => TokenCleared

\* connect has returned success and the string s is the token in memory and
\* in the store
ConnectedWith(cr, s) ==
    /\ cr.pc = "done" /\ cr.res.value.success
    /\ token = JStr(s) /\ stored = JStr(s)

\* the answer to /ConnectEx is a string of more than 10 characters
LongStringAnswer(cr) ==
    /\ cr.op = "connect" /\ cr.last # None /\ cr.last.kind = "ok"
    /\ cr.last.data.t = "string" /\ Len(cr.last.data.v) > 10

\* C10 as stated: whenever /ConnectEx is answered with a 2xx status and a
\* string of more than 10 characters, connect returns success and the
\* string is the token in memory and in the store.
C10_LongStringConnects ==
    \A c \in Slots :
        (LongStringAnswer(call[c]) /\ call[c].last.status \in 200..299)
        => ConnectedWith(call[c], call[c].last.data.v)

\* C10 amended: whenever /ConnectEx is answered with status 200 or 201 and a
\* string of more than 10 characters that holds, in any letter case, none of
\* 'invalid', 'error', 'failed', 'denied', connect returns success and the
\* string is the token in memory and in the store.
C10_LongCleanStringConnects ==
    \A c \in Slots :
        ( /\ LongStringAnswer(call[c]) /\ call[c].last.status \in {200, 201}
          /\ \A word \in {"invalid", "error", "failed", "denied"} :
                 ~Includes(ToLowerCase(call[c].last.data.v), word) )
        => ConnectedWith(call[c], call[c].last.data.v)

\* a connect answered 201 with a token string
C10_Witness ==
    \E c \in Slots :
        /\ LongStringAnswer(call[c]) /\ call[c].last.status = 201
        /\ ConnectedWith(call[c], TokenA)

\* C11: a step of connect that does not end in success:true (the request
\* going out, or the answer coming in and being classified a failure, an
\* unexpected format, a non-200/201 status or an exception) leaves the token
\* in memory and the token in the store as they were.
C11_FailedConnectKeepsToken ==
    [][\A c \in Slots :
          ( /\ call'[c].op = "connect" /\ call'[c].pc # call[c].pc
            /\ ~(call'[c].pc = "done" /\ call'[c].res.value.success) )
          => (token' = token /\ stored' = stored)]_vars

\* a connect that met a transport exception while a session was held, and
\* the session is still held
C11_Witness ==
    \E c \in Slots :
        /\ call[c].op = "connect" /\ call[c].pc = "done"
        /\ call[c].last \in TransportErrors
        /\ ~call[c].res.value.success
        /\ token = JStr(TokenA) /\ stored = JStr(TokenA)

\* a sendOrder call whose /OrderSend request was answered 200 or 201: its
\* outcome is parseOrderResponse of the body of that answer
Parsed(cr) ==
    /\ cr.op = "sendOrder" /\ cr.pc = "done" /\ cr.answers >= 1
    /\ cr.last.kind = "ok" /\ cr.last.status \in {200, 201}

\* the body is an object whose property k is a number above 0
PositiveField(d, k) ==
    d.t = "object" /\ k \in DOMAIN d.v /\ d.v[k].t = "number" /\ d.v[k].v > 0

\* C12: every object body that has retcode 10009 (the number, or the string
\* '10009') is classified Success, whatever other properties it has.
C12_RetcodeSuccessWins ==
    \A c \in Slots :
        LET d == call[c].last.data
        IN  ( /\ Parsed(call[c]) /\ d.t = "object" /\ "retcode" \in DOMAIN d.v
              /\ d.v.retcode \in {JNum(10009), JStr("10009")} )
            => call[c].res.value.retcode = RetSuccess

\* a body with retcode 10009, an error and a failure message, classified
\* Success
C12_Witness ==
    \E c \in Slots :
        /\ Parsed(call[c])
        /\ call[c].last.data = JObj([retcode |-> JNum(10009), error |-> JStr("x"),
                                     message |-> JStr("failed")])
        /\ call[c].res.value.retcode = RetSuccess

\* C13 as stated: every object body with a positive ticket or a positive
\* order is classified Success carrying that number, whatever its retcode,
\* success, error and message properties are.
C13_TicketOrOrderWins ==
    \A c \in Slots :
        LET d == call[c].last.data
            result == call[c].res.value
        IN  (Parsed(call[c]) /\ (PositiveField(d, "ticket") \/ PositiveField(d, "order")))
            => /\ result.retcode = RetSuccess
               /\ \/ PositiveField(d, "ticket") /\ result.order = d.v.ticket
                  \/ PositiveField(d, "order") /\ result.order = d.v.order

\* C13 amended: an object body with a positive ticket is classified Success
\* carrying the ticket, whatever else it holds.  A positive order is looked
\* at after the retcode, success, error and message rules: for a body with
\* a positive order and no positive ticket, a retcode that parseInt does not
\* read as 10009, a success other than true or an error property gives
\* Failure, a body with none of the properties retcode, success, error,
\* Error, message gives Success, and every Success carries the order number.
C13_TicketWinsOrderComesLast ==
    \A c \in Slots :
        LET d == call[c].last.data
            result == call[c].res.value
            has(k) == k \in DOMAIN d.v
        IN  Parsed(call[c])
            => /\ PositiveField(d, "ticket")
                  => result.retcode = RetSuccess /\ result.order = d.v.ticket
               /\ (PositiveField(d, "order") /\ ~PositiveField(d, "ticket"))
                  => /\ result.retcode = RetSuccess => result.order = d.v.order
                     /\ (has("retcode") /\ ParseInt(d.v.retcode) # JNum(10009))
                        => result.retcode # RetSuccess
                     /\ (~has("retcode") /\ has("success") /\ d.v.success # JBool(TRUE))
                        => result.retcode = RetFailure
                     /\ (~has("retcode") /\ ~has("success") /\ has("error"))
                        => result.retcode = RetFailure
                     /\ (\A k \in {"retcode", "success", "error", "Error", "message"} :
                            ~has(k))
                        => result.retcode = RetSuccess

\* a body with a positive ticket and a failing retcode, classified Success
\* with the ticket, and (in the other call) a body with a positive order
\* and a failing retcode, classified Failure
C13_Witness ==
    \E c1, c2 \in Slots :
        /\ Parsed(call[c1]) /\ Parsed(call[c2])
        /\ call[c1].last.data = JObj([ticket |-> JNum(77), retcode |-> JNum(10004)])
        /\ call[c1].res.value.retcode = RetSuccess
        /\ call[c1].res.value.order = JNum(77)
        /\ call[c2].last.data = JObj([order |-> JNum(9), retcode |-> JNum(10004)])
        /\ call[c2].res.value.retcode = RetFailure

C15_NegativeNumberFails ==
    \A c \in Slots :
        LET d == call[c].last.data
            result == call[c].res.value
        IN  (Parsed(call[c]) /\ d.t = "number")
            => /\ d.v > 0 => result.retcode = RetSuccess /\ result.order = d
               /\ d.v = 0 => result.retcode = RetSuccess /\ result.order = JUndefined
               /\ d.v < 0 => result.retcode = 0 - d.v /\ result.retcode # RetSuccess

\* sym names gold, sym names silver (in any letter case)
GoldRelated(sym) ==
    Includes(ToLowerCase(sym), "xau") \/ Includes(ToLowerCase(sym), "gold")
SilverRelated(sym) ==
    Includes(ToLowerCase(sym), "xag") \/ Includes(ToLowerCase(sym), "silver")

\* m is the first element of list that is in the set good
IsFirstIn(m, list, good) ==
    \E j \in 1..Len(list) :
        /\ list[j] = m /\ list[j] \in good
        /\ \A k \in 1..(j - 1) : list[k] \notin good

\* a getQuote or sendOrder call that has its broker list, not empty
Resolving(cr) ==
    cr.op \in {"getQuote", "sendOrder"} /\ cr.answers >= 1 /\ Len(cr.allSymbols) > 0

\* C16: with s the symbol asked for, n the symbol without its suffix and L
\* the broker list: s in L resolves to s; else n in L resolves to n; else,
\* n naming gold (silver) and L holding a gold (silver) symbol, to the first
\* such symbol of L; else to the first symbol of L that contains n or is
\* contained in n, and to s itself when there is none.
C16_ResolverPrecedence ==
    \A c \in Slots :
        LET cr == call[c]
            s == cr.args.symbol
            n == NormalizeSymbol(s)
            L == cr.allSymbols
            m == cr.actualSymbol
            inL == {L[j] : j \in 1..Len(L)}
            exact == s \in inL
            normalized == n \in inL
            golds == {x \in inL : GoldRelated(x)}
            silvers == {x \in inL : SilverRelated(x)}
            gold == (Includes(n, "XAU") \/ Includes(n, "GOLD")) /\ golds # {}
            silver == (Includes(n, "XAG") \/ Includes(n, "SILVER")) /\ silvers # {}
            partial == {x \in inL : Includes(x, n) \/ Includes(n, x)}
        IN  Resolving(cr)
            => /\ exact => m = s
               /\ (~exact /\ normalized) => m = n
               /\ (~exact /\ ~normalized /\ gold) => IsFirstIn(m, L, golds)
               /\ (~exact /\ ~normalized /\ ~gold /\ silver) => IsFirstIn(m, L, silvers)
               /\ (~exact /\ ~normalized /\ ~gold /\ ~silver)
                  => IF partial = {} THEN m = s ELSE IsFirstIn(m, L, partial)

\* 'EURUSD.raw' against the list ['EURUSD', 'EURUSD.raw'] resolves to
\* 'EURUSD.raw'
C16_Witness ==
    \E c \in Slots :
        /\ Resolving(call[c])
        /\ call[c].args.symbol = "EURUSD.raw"
        /\ call[c].allSymbols = <<"EURUSD", "EURUSD.raw">>
        /\ call[c].actualSymbol = "EURUSD.raw"

\* a sendOrder call that has issued its /OrderSend request
OrderSent(cr) ==
    /\ cr.op = "sendOrder" /\ Len(cr.reqs) >= 2
    /\ cr.reqs[Len(cr.reqs)].path = "/OrderSend"

\* the requests are /SymbolList, /Subscribe for sym and /OrderSend for sym,
\* each issued when the answer to the one before it was in
SubscribedThenSent(cr, sym) ==
    /\ Len(cr.reqs) = 3
    /\ cr.reqs[1].path = "/SymbolList" /\ cr.reqs[1].seen = 0
    /\ cr.reqs[2].path = "/Subscribe" /\ cr.reqs[2].seen = 1
    /\ cr.reqs[2].params.symbol = sym
    /\ cr.reqs[3].path = "/OrderSend" /\ cr.reqs[3].seen = 2
    /\ cr.reqs[3].params.symbol = sym

\* C17 as stated: sendOrder for 'XAUUSD' against a list without 'XAUUSD'
\* and with 'GOLD' subscribes to 'GOLD' and then sends the order for 'GOLD';
\* whenever a symbol is resolved the requests are /SymbolList, /Subscribe,
\* /OrderSend in this order.
C17_GoldSubscribedThenSent ==
    \A c \in Slots :
        LET cr == call[c]
            inL == {cr.allSymbols[j] : j \in 1..Len(cr.allSymbols)}
        IN  OrderSent(cr)
            => /\ (cr.args.symbol = "XAUUSD" /\ "XAUUSD" \notin inL /\ "GOLD" \in inL)
                  => SubscribedThenSent(cr, "GOLD")
               /\ MatchSymbol(cr.args.symbol, cr.allSymbols) # ""
                  => SubscribedThenSent(cr, cr.actualSymbol)

\* C17 amended: sendOrder for 'XAUUSD' against a list without 'XAUUSD' that
\* holds a symbol naming gold subscribes to the first such symbol of the
\* list ('GOLD' when no other precedes it) and then sends the order for it;
\* whenever a symbol is resolved and the token is still held, the requests
\* are /SymbolList, /Subscribe, /OrderSend, each issued after the answer to
\* the one before.
C17_FirstGoldSubscribedThenSent ==
    \A c \in Slots :
        LET cr == call[c]
            inL == {cr.allSymbols[j] : j \in 1..Len(cr.allSymbols)}
            golds == {x \in inL : GoldRelated(x)}
        IN  OrderSent(cr)
            => /\ (cr.args.symbol = "XAUUSD" /\ "XAUUSD" \notin inL /\ golds # {})
                  => /\ IsFirstIn(cr.actualSymbol, cr.allSymbols, golds)
                     /\ SubscribedThenSent(cr, cr.actualSymbol)
               /\ MatchSymbol(cr.args.symbol, cr.allSymbols) # ""
                  => SubscribedThenSent(cr, cr.actualSymbol)

\* an order for 'XAUUSD' that went out for 'GOLD' after the subscription to
\* 'GOLD' had been answered
C17_Witness ==
    \E c \in Slots :
        /\ OrderSent(call[c]) /\ call[c].pc = "done"
        /\ call[c].args.symbol = "XAUUSD"
        /\ call[c].allSymbols = <<"GOLD", "EURUSD">>
        /\ SubscribedThenSent(call[c], "GOLD")

ReadOperations == {"getPositions", "getQuote", "getSymbols", "getAccountInfo"}

\* the empty result of a read operation
EmptyResult(cr) ==
    /\ cr.res.kind = "return"
    /\ IF cr.op \in {"getPositions", "getSymbols"}
       THEN cr.res.value = <<>> ELSE cr.res.value = None

\* the last answer of the call is a failure that is no authentication
\* failure
FailedUnauthenticatedly(cr) ==
    /\ cr.answers >= 1 /\ cr.last.kind = "error"
    /\ cr.last.status # 401 /\ ~IsAuthMessage(cr.last.message)

\* C18 as stated: a read operation that ends after a failure that is no
\* authentication failure has returned its empty result; it throws only
\* after an authentication failure.
C18_ReadsThrowOnlyOnAuthFailure ==
    \A c \in Slots :
        LET cr == call[c]
        IN  (cr.op \in ReadOperations /\ cr.pc = "done")
            => /\ FailedUnauthenticatedly(cr) => EmptyResult(cr)
               /\ cr.res.kind = "throw"
                  => (cr.last.status = 401 \/ IsAuthMessage(cr.last.message))

\* C18 amended: a read operation returns its empty result when no token is
\* held; it throws only after one of its requests was rejected, and it
\* throws whenever its own request (/OpenedOrders, /SymbolList, /GetQuote,
\* /AccountSummary) is rejected, by a transport error or a non-
\* authentication HTTP error as well as by an authentication failure.
C18_ReadsThrowOnEveryRejection ==
    \A c \in Slots :
        LET cr == call[c]
        IN  (cr.op \in ReadOperations /\ cr.pc = "done")
            => /\ cr.answers = 0 => EmptyResult(cr)
               /\ cr.res.kind = "throw" => (cr.answers >= 1 /\ cr.last.kind = "error")
               /\ ( /\ FailedUnauthenticatedly(cr)
                    /\ (cr.op = "getAccountInfo" => cr.last \in TransportErrors) )
                  => /\ cr.res.kind = "throw"
                     /\ cr.res.value = cr.last.message

\* a getQuote whose symbol was resolved and subscribed and whose /GetQuote
\* request met a transport error: the call threw
C18_Witness ==
    \E c \in Slots :
        /\ call[c].op = "getQuote" /\ call[c].pc = "done"
        /\ Len(call[c].reqs) = 3
        /\ call[c].last \in TransportErrors
        /\ call[c].res.kind = "throw"
        /\ token # JNull

\* the answer r to an attempt ends the probe: it is classified 'already
\* closed', or Success without an invalid-volume text, or it is an exception
\* with an 'already closed' or an authentication text
EndsProbe(r) ==
    IF r.kind = "ok"
    THEN /\ r.status \in {200, 201}
         /\ LET result == parseOrderResponse(r.data, "OrderClose")
            IN  /\ result.comment.t = "string"
                /\ \/ AlreadyClosedComment(result.comment.v)
                   \/ /\ ~InvalidVolumeComment(result.comment.v)
                      /\ result.retcode = RetSuccess
    ELSE AlreadyClosedMessage(r.message) \/ IsAuthMessage(r.message)

\* C19: when a closePosition call is over and the answer to its last
\* attempt did not end the probe, it has returned retcode 10004 with the
\* message 'Failed to close position T - tried N different volume formats',
\* N being the length of uniqueFormats and the number of /OrderClose
\* requests the call issued.
C19_ExhaustedProbeNamesCount ==
    \A c \in Slots :
        LET cr == call[c]
            N == Len(cr.uniqueFormats)
        IN  ( /\ cr.op = "closePosition" /\ cr.pc = "done" /\ cr.answered >= 1
              /\ ~EndsProbe(cr.last) )
            => /\ Returned(cr, RetFailure)
               /\ cr.res.value.comment =
                      "Failed to close position " \o IntToString(cr.args.ticket)
                      \o " - tried " \o IntToString(N) \o " different volume formats"
               /\ Cardinality(CloseRequests(cr)) = N
               /\ cr.answered = N

\* a probe for a position that was found, with three candidates or more,
\* none of which ended it
C19_Witness ==
    \E c \in Slots :
        /\ call[c].op = "closePosition" /\ call[c].pc = "done"
        /\ call[c].positionDetails # None
        /\ Len(call[c].uniqueFormats) >= 3
        /\ call[c].answered = Len(call[c].uniqueFormats)
        /\ ~EndsProbe(call[c].last)
        /\ Returned(call[c], RetFailure)

\* the /OrderSend request carries the parameter name exactly when the
\* request field is there and above 0, with the caller's value
SentWhenPositive(params, name, field) ==
    /\ name \in DOMAIN params <=> (field # None /\ IsPositive(field))
    /\ name \in DOMAIN params => params[name] = field

\* C20: the /OrderSend request of a sendOrder call holds price, stoploss,
\* takeprofit exactly when the caller's price, sl, tp is there and above 0,
\* and comment exactly when the caller's comment is there and not empty;
\* what it holds is the caller's value.
C20_OptionalFieldsNeverZero ==
    \A c \in Slots :
        LET cr == call[c]
            params == cr.reqs[Len(cr.reqs)].params
        IN  OrderSent(cr)
            => /\ SentWhenPositive(params, "price", cr.args.price)
               /\ SentWhenPositive(params, "stoploss", cr.args.sl)
               /\ SentWhenPositive(params, "takeprofit", cr.args.tp)
               /\ "comment" \in DOMAIN params <=> cr.args.comment # ""
               /\ "comment" \in DOMAIN params => params.comment = cr.args.comment

\* an order with a price and a take profit, a stop loss of 0 and no
\* comment: price and takeprofit went out, stoploss and comment did not
C20_Witness ==
    \E c \in Slots :
        LET params == call[c].reqs[Len(call[c].reqs)].params
        IN  /\ OrderSent(call[c])
            /\ call[c].args.sl = Zero /\ call[c].args.comment = ""
            /\ DOMAIN params = {"id", "symbol", "operation", "volume", "slippage",
                                "expertID", "price", "takeprofit"}
            /\ params.price = Vol(1, 100000000)

\* the build has no usable API key: none, or the placeholder of a template
Unconfigured == apiKey \in ApiKeys \ {BridgeApiKey}

\* C21: when the API key of the build is missing or a placeholder, a
\* connect call issues no request and, once it has returned, its outcome
\* is a failure.
C21_UnconfiguredConnectFailsUnsent ==
    \A c \in Slots :
        (call[c].op = "connect" /\ Unconfigured)
            => /\ call[c].reqs = <<>>
               /\ call[c].pc = "done" => ~call[c].res.value.success

\* C22: the token in memory is the token in the store, both null or both
\* the same string: the constructor restores the persisted token, and every
\* connect, disconnect, setToken, clearToken and handling of an expired
\* session writes or removes the two together.
C22_TokenMatchesStore == token = stored

\* a connect has replaced the restored token, in memory and in the store,
\* by the one the bridge handed out as a number
C22_Witness ==
    \E c \in Slots :
        /\ call[c].op = "connect" /\ call[c].pc = "done"
        /\ call[c].res.value.success
        /\ token = JStr("7001") /\ stored = JStr("7001")

\* C23: when a closePosition call whose positions fetch gave the position
\* returns Success after at least one /OrderClose request, the outcome
\* carries a profit, and it is the profit of the position as fetched.
C23_SuccessCarriesCapturedProfit ==
    \A c \in Slots :
        (/\ call[c].op = "closePosition"
         /\ Returned(call[c], RetSuccess)
         /\ CloseRequests(call[c]) # {}
         /\ call[c].positionDetails # None)
            => /\ "profit" \in DOMAIN call[c].res.value
               /\ call[c].res.value.profit = call[c].positionDetails.profit

\* C24: closePosition calls are not deduplicated. Whatever another call is
\* doing, a closePosition call returns without a request only when no
\* session token is held, and a call whose positions fetch gave its position
\* has issued an /OrderClose request for the ticket: each call runs its own
\* probe.
C24_EachCloseRunsItsOwnProbe ==
    \A c \in Slots :
        call[c].op = "closePosition" =>
            /\ (call[c].pc = "done" /\ call[c].reqs = <<>>)
                   => call[c].res.value = NotConnected
            /\ call[c].positionDetails # None
                   => \E j \in CloseRequests(call[c]) :
                          call[c].reqs[j].params.ticket = call[c].args.ticket

\* two calls for the same ticket overlap, and the /OrderClose requests of
\* both are in flight
C24_Witness ==
    \E c, d \in Slots :
        /\ c # d
        /\ At(c, "closePosition", "OrderClose") /\ At(d, "closePosition", "OrderClose")
        /\ call[c].args.ticket = call[d].args.ticket
        /\ call[c].reqs[Len(call[c].reqs)].params.ticket = call[c].args.ticket
        /\ call[d].reqs[Len(call[d].reqs)].params.ticket = call[d].args.ticket

\* the values of the candidates that were derived from the raw volume by
\* scaling, in list order
RawDerived(cr) ==
    LET scaled == SelectSeq(cr.uniqueFormats,
                            LAMBDA f : Includes(f.description, "Raw volume x"))
    IN  [j \in 1..Len(scaled) |-> scaled[j].value]

\* the candidates derived from the raw volume R are R times each factor of
\* exps (powers of ten), in that order, those in (0, 1000000) and not within
\* 0.000001 of a value already in the list (the list as built, before the
\* final filter of line 1163)
RawScaledBy(cr, exps) ==
    LET stated == ScaledInRange(cr.positionDetails.rawVolume, exps)
        volumeFormats == VolumeFormats(cr.args.volumeToClose, cr.positionDetails)
    IN  /\ IsSubsequence(RawDerived(cr), stated)
        /\ \A j \in 1..Len(stated) : SomeNear(volumeFormats, stated[j])

\* C25 as stated: for a found position with raw volume R > 0, the candidates
\* derived from R are R times 1000, 10000, 100000, 0.001, 0.0001, 0.00001,
\* 10, 100, 0.1, 0.01, in that order, restricted to (0, 1000000) and to
\* values not already in the list.
C25_RawScaledLikeLots ==
    \A c \in Slots :
        (CandidatesBuilt(call[c]) /\ IsPositive(call[c].positionDetails.rawVolume))
            => RawScaledBy(call[c], StatedLotsExponents)

\* C25 as amended: for a found position with raw volume R > 0, the
\* candidates derived from R are R times 1000, 0.001, 100, 0.01, 10, 0.1, in
\* that order, restricted to (0, 1000000) and to values not already in the
\* list; R is scaled by no other factor.
C25_RawScaledBySixFactors ==
    \A c \in Slots :
        (CandidatesBuilt(call[c]) /\ IsPositive(call[c].positionDetails.rawVolume))
            => RawScaledBy(call[c], StatedRawExponents)

\* a list with candidates derived from the raw volume, one of the six scaled
\* values having been left out as already in the list
C25_Witness ==
    \E c \in Slots :
        /\ CandidatesBuilt(call[c]) /\ IsPositive(call[c].positionDetails.rawVolume)
        /\ Len(RawDerived(call[c])) >= 2
        /\ Len(RawDerived(call[c])) <
               Len(ScaledInRange(call[c].positionDetails.rawVolume, StatedRawExponents))

\* C26: when the probe of a closePosition call starts without position
\* detail (the positions fetch failed), each of the fallback volumes 0.01,
\* 0.1, 1, 10, 100, 1000, 10000, 100000 is a candidate of the call, whether
\* or not the caller gave a volume.
C26_FallbackWithoutDetail ==
    \A c \in Slots :
        (/\ call[c].op = "closePosition" /\ call[c].i >= 1
         /\ call[c].positionDetails = None)
            => \A k \in 1..Len(fallbackVolumes) :
                   \E j \in 1..Len(call[c].uniqueFormats) :
                       call[c].uniqueFormats[j].value = fallbackVolumes[k]

\* the /OrderClose requests of a call, in the order they were issued
CloseSequence(cr) == SelectSeq(cr.reqs, LAMBDA q : q.path = "/OrderClose")

\* C27: the candidates of a closePosition call are tried in list order and
\* one at a time: the call has issued as many /OrderClose requests as the
\* index of its loop says, the k-th of them carries the value of the k-th
\* candidate as lots (so no candidate is sent twice and none is skipped),
\* and every request of the call was issued when all the requests before it
\* had been answered.
C27_CandidatesTriedInOrder ==
    \A c \in Slots :
        LET cr == call[c]
            closes == CloseSequence(cr)
        IN  cr.op = "closePosition" =>
                /\ Len(closes) = cr.i
                /\ Len(closes) <= Len(cr.uniqueFormats)
                /\ \A k \in 1..Len(closes) :
                       /\ "lots" \in DOMAIN closes[k].params
                       /\ closes[k].params.lots = cr.uniqueFormats[k].value
                       /\ closes[k].params.ticket = cr.args.ticket
                /\ \A j \in 1..Len(cr.reqs) : cr.reqs[j].seen = j - 1

\* a probe that has sent its third candidate, the first two having been
\* answered
C27_Witness ==
    \E c \in Slots :
        /\ At(c, "closePosition", "OrderClose")
        /\ Len(CloseSequence(call[c])) = 3
        /\ call[c].answered = 2
        /\ CloseSequence(call[c])[3].params.lots = call[c].uniqueFormats[3].value
        /\ call[c].uniqueFormats[3].value # call[c].uniqueFormats[1].value

\* the text the probe tests of a 200/201 response: the comment of the parsed
\* result when it is a non-empty string
CommentOf(r) ==
    LET result == parseOrderResponse(r.data, "OrderClose")
    IN  IF Truthy(result.comment) /\ result.comment.t = "string"
        THEN result.comment.v ELSE ""

\* the answer r is a 200/201 response whose text matches an invalid-volume
\* pattern
InvalidVolumeAnswer(r) ==
    r.kind = "ok" /\ r.status \in {200, 201} /\ InvalidVolumeComment(CommentOf(r))

\* the answer r is a 200/201 response whose text matches an already-closed
\* pattern
AlreadyClosedAnswer(r) ==
    r.kind = "ok" /\ r.status \in {200, 201} /\ AlreadyClosedComment(CommentOf(r))

\* the answer r is that of a failed candidate: a 200/201 response that
\* matches an invalid-volume pattern or is classified Failure, a response
\* with another status, or a rejection with an HTTP status
FailedCandidate(r) ==
    \/ InvalidVolumeAnswer(r)
    \/ /\ r.kind = "ok" /\ r.status \in {200, 201}
       /\ parseOrderResponse(r.data, "OrderClose").retcode # RetSuccess
    \/ r.kind = "ok" /\ r.status \notin {200, 201}
    \/ r.kind = "error" /\ r.status >= 400

\* the call went on after the answer to its latest attempt: the next
\* candidate is out if one remained, and Failure naming the number of
\* candidates is returned if none did
WentOn(cr) ==
    IF cr.answered < Len(cr.uniqueFormats)
    THEN cr.pc = "OrderClose" /\ cr.i = cr.answered + 1
    ELSE /\ Returned(cr, RetFailure)
         /\ Includes(cr.res.value.comment, "different volume formats")

\* C28 as stated: whenever the latest attempt of a probe was answered as a
\* failed candidate is, the probe went on, and if the answer matched an
\* invalid-volume pattern the call has not returned Success.
C28_FailedCandidateGoesOn ==
    \A c \in Slots :
        LET cr == call[c]
        IN  (cr.op = "closePosition" /\ cr.answered >= 1 /\ FailedCandidate(cr.last))
            => /\ WentOn(cr)
               /\ InvalidVolumeAnswer(cr.last) => ~Returned(cr, RetSuccess)

\* C28 as amended: whenever the latest attempt of a probe was answered as a
\* failed candidate is and the answer did not match an already-closed
\* pattern (that test comes first and ends the probe with Success), the
\* probe went on; it has not returned Success.
C28_FailedCandidateNotClosedGoesOn ==
    \A c \in Slots :
        LET cr == call[c]
        IN  (/\ cr.op = "closePosition" /\ cr.answered >= 1
             /\ FailedCandidate(cr.last) /\ ~AlreadyClosedAnswer(cr.last))
            => WentOn(cr) /\ ~Returned(cr, RetSuccess)

\* the second candidate was answered 'invalid volume' and the third is out
C28_Witness ==
    \E c \in Slots :
        /\ At(c, "closePosition", "OrderClose")
        /\ call[c].answered = 2 /\ call[c].i = 3
        /\ InvalidVolumeAnswer(call[c].last)

\* the answer r matches an already-closed pattern: the text of a 200/201
\* response, or the message of the exception the attempt raised
AlreadyClosedReported(r) ==
    \/ AlreadyClosedAnswer(r)
    \/ r.kind = "error" /\ r.message # "" /\ AlreadyClosedMessage(r.message)

\* C29: whenever the latest attempt of a probe was answered with a text (or
\* failed with a message) that matches an already-closed pattern, the call
\* has returned retcode 10009 with the comment 'Position already closed' for
\* that attempt and has issued no /OrderClose request after it; this holds
\* also when the answer matches an invalid-volume pattern or is classified
\* Success, the already-closed test being made first.
C29_AlreadyClosedEndsProbe ==
    \A c \in Slots :
        LET cr == call[c]
        IN  (cr.op = "closePosition" /\ cr.answered >= 1 /\ AlreadyClosedReported(cr.last))
            => /\ Returned(cr, RetSuccess)
               /\ cr.res.value.comment = "Position already closed"
               /\ cr.res.value.ticket = JNum(cr.args.ticket)
               /\ cr.res.value.attemptNumber = cr.answered
               /\ Len(CloseSequence(cr)) = cr.answered

\* the first candidate was answered 'invalid volume: position not found',
\* and the call returned 'Position already closed' with candidates left
C29_Witness ==
    \E c \in Slots :
        /\ call[c].op = "closePosition" /\ call[c].answered = 1
        /\ AlreadyClosedAnswer(call[c].last) /\ InvalidVolumeAnswer(call[c].last)
        /\ Returned(call[c], RetSuccess)
        /\ call[c].res.value.comment = "Position already closed"
        /\ Len(call[c].uniqueFormats) > 1
        /\ Len(CloseSequence(call[c])) = 1

\* the request a sendOrder or getQuote call is made for
FinalPath(cr) == IF cr.op = "sendOrder" THEN "/OrderSend" ELSE "/GetQuote"

\* C30: in sendOrder and getQuote the subscription is best-effort. Once the
\* /Subscribe request of a call has been answered, whatever the answer, the
\* call has issued its /OrderSend (or /GetQuote) request for the resolved
\* symbol; and once the resolver has given no match, the call has issued no
\* /Subscribe request and its /OrderSend (or /GetQuote) request carries the
\* symbol the caller gave.
C30_SubscriptionIsBestEffort ==
    \A c \in Slots :
        LET cr == call[c]
            resolved == MatchSymbol(cr.args.symbol, cr.allSymbols)
        IN  (cr.op \in {"sendOrder", "getQuote"} /\ cr.answers >= 1)
            => /\ (resolved # "" /\ Len(cr.reqs) >= 2 /\ cr.answers >= 2)
                      => /\ cr.reqs[2].path = "/Subscribe"
                         /\ cr.reqs[2].params.symbol = resolved
                         /\ Len(cr.reqs) = 3
                         /\ cr.reqs[3].path = FinalPath(cr)
                         /\ cr.reqs[3].params.symbol = resolved
               /\ resolved = ""
                      => /\ \A j \in 1..Len(cr.reqs) : cr.reqs[j].path # "/Subscribe"
                         /\ Len(cr.reqs) = 2
                         /\ cr.reqs[2].path = FinalPath(cr)
                         /\ cr.reqs[2].params.symbol = cr.args.symbol

\* the subscription to the resolved symbol was rejected (HTTP 401), and the
\* order is out for that symbol, which is not the symbol the caller gave
C30_Witness ==
    \E c \in Slots :
        /\ At(c, "sendOrder", "OrderSend")
        /\ call[c].answers = 2
        /\ call[c].last = HttpError(401)
        /\ call[c].reqs[2].path = "/Subscribe"
        /\ call[c].reqs[3].params.symbol = call[c].reqs[2].params.symbol
        /\ call[c].reqs[3].params.symbol # call[c].args.symbol

(***************************************************************************)
(* C31: string bodies and message strings                                  *)
(***************************************************************************)

\* the text contains one of the keywords, letter case ignored
HasKeyword(s, keywords) == \E k \in keywords : Includes(ToLowerCase(s), k)

\* a sendOrder call whose answer was a string body that is not read as a
\* ticket number
ParsedText(cr) ==
    /\ Parsed(cr) /\ cr.last.data.t = "string"
    /\ LET n == ParseIntStr(cr.last.data.v) IN ~(n.t = "number" /\ n.v > 0)

\* the classification of the object body {message: s}
MessageClass(s) == parseOrderResponse(JObj([message |-> JStr(s)]), "OrderSend").retcode

\* C31 as stated: a non-numeric string body s that contains one of success,
\* executed, placed, error, failed, invalid is classified like the object
\* body {message: s}, success keywords first, and a string with none of
\* these six keywords is classified Success.
C31_StringLikeMessage ==
    \A c \in Slots :
        LET s == call[c].last.data.v
            result == call[c].res.value
        IN  ParsedText(call[c])
            => /\ HasKeyword(s, {"success", "executed", "placed"})
                  => result.retcode = RetSuccess /\ MessageClass(s) = RetSuccess
               /\ ( /\ ~HasKeyword(s, {"success", "executed", "placed"})
                    /\ HasKeyword(s, {"error", "failed", "invalid"}) )
                  => result.retcode = RetFailure /\ MessageClass(s) = RetFailure
               /\ ~HasKeyword(s, {"success", "executed", "placed",
                                  "error", "failed", "invalid"})
                  => result.retcode = RetSuccess

\* C31, amended: a non-numeric string body s that contains one of success,
\* executed, placed, error, failed, invalid is classified like the object
\* body {message: s}, success keywords first; a string without a success
\* keyword that contains 'denied' is classified Failure (the object body
\* {message: s} is not); a string with none of the seven keywords is
\* classified Success.
C31_StringLikeMessageButDenied ==
    \A c \in Slots :
        LET s == call[c].last.data.v
            result == call[c].res.value
        IN  ParsedText(call[c])
            => /\ HasKeyword(s, {"success", "executed", "placed"})
                  => result.retcode = RetSuccess /\ MessageClass(s) = RetSuccess
               /\ ( /\ ~HasKeyword(s, {"success", "executed", "placed"})
                    /\ HasKeyword(s, {"error", "failed", "invalid"}) )
                  => result.retcode = RetFailure /\ MessageClass(s) = RetFailure
               /\ ( /\ ~HasKeyword(s, {"success", "executed", "placed"})
                    /\ HasKeyword(s, {"denied"}) )
                  => result.retcode = RetFailure
               /\ ~HasKeyword(s, {"success", "executed", "placed",
                                  "error", "failed", "invalid", "denied"})
                  => result.retcode = RetSuccess

\* one call answered with the string 'Failed, not executed' and the other
\* with the object {message: 'Failed, not executed'}, both classified
\* Success
C31_Witness ==
    \E c1, c2 \in Slots :
        /\ ParsedText(call[c1]) /\ Parsed(call[c2])
        /\ call[c1].last.data = JStr("Failed, not executed")
        /\ call[c2].last.data = JObj([message |-> JStr("Failed, not executed")])
        /\ call[c1].res.value.retcode = RetSuccess
        /\ call[c2].res.value.retcode = RetSuccess

(***************************************************************************)
(* C32: connect answered with a success object                             *)
(***************************************************************************)

\* the answer to /ConnectEx is an object with success === true and a string
\* of more than 10 characters in id, sessionId, connectionId or accessToken
SuccessObjectAnswer(cr) ==
    /\ cr.op = "connect" /\ cr.last # None /\ cr.last.kind = "ok"
    /\ cr.last.data.t = "object"
    /\ Field(cr.last.data, "success") = JBool(TRUE)
    /\ FirstTokenField(cr.last.data) # None

\* C32: whenever /ConnectEx is answered with a 2xx status and an object body
\* with success === true and a string of more than 10 characters in one of
\* id, sessionId, connectionId, accessToken, connect returns success and
\* that string is the token in memory and in the store, also when the
\* body carries a message string.
C32_SuccessObjectConnects ==
    \A c \in Slots :
        (SuccessObjectAnswer(call[c]) /\ call[c].last.status \in 200..299)
        => ConnectedWith(call[c], FirstTokenField(call[c].last.data).v)

(***************************************************************************)
(* The object-style service of src/lib/mt5ApiService.ts: connect,          *)
(* lines 587-871, and disconnect, lines 873-877                            *)
(***************************************************************************)

\* x.k for any value x: undefined unless x is an object that has k
Property(x, k) == IF x.t = "object" THEN Field(x, k) ELSE JUndefined

\* a connect that has the three methods with the key in the query or in
\* a header only
authMethodsThree(credentials) ==
    LET plain == [accountNumber |-> credentials.accountNumber,
                  password |-> credentials.password,
                  serverName |-> credentials.serverName]
    IN  << [name |-> "Query Parameter Auth",
            params |-> [accountNumber |-> credentials.accountNumber,
                        password |-> credentials.password,
                        serverName |-> credentials.serverName,
                        apiKey |-> apiKey],
            headers |-> [Accept |-> "application/json"]],
           [name |-> "Authorization Header Auth",
            params |-> plain,
            headers |-> [Accept |-> "application/json",
                         Authorization |-> "Bearer " \o apiKey]],
           [name |-> "X-API-Key Header Auth",
            params |-> plain,
            headers |-> [Accept |-> "application/json", XAPIKey |-> apiKey]] >>

\* the four authentication methods, lines 631-691: the query parameters
\* and the headers that carry the key
authMethods(credentials) ==
    LET plain == [accountNumber |-> credentials.accountNumber,
                  password |-> credentials.password,
                  serverName |-> credentials.serverName]
    IN  << [name |-> "Query Parameter Auth",
            params |-> [accountNumber |-> credentials.accountNumber,
                        password |-> credentials.password,
                        serverName |-> credentials.serverName,
                        apiKey |-> apiKey],
            headers |-> [Accept |-> "application/json"]],
           [name |-> "Authorization Header Auth",
            params |-> plain,
            headers |-> [Accept |-> "application/json",
                         Authorization |-> "Bearer " \o apiKey]],
           [name |-> "X-API-Key Header Auth",
            params |-> plain,
            headers |-> [Accept |-> "application/json", XAPIKey |-> apiKey]],
           [name |-> "Simple Parameter Auth",
            params |-> [login |-> credentials.accountNumber,
                        password |-> credentials.password,
                        server |-> credentials.serverName,
                        key |-> apiKey],
            headers |-> [Accept |-> "application/json"]] >>

\* JSON.stringify of a body; the properties of an object in a fixed order
\* (the object bodies of the model that get here have one property)
RECURSIVE JsonStringify(_)
JsonStringify(d) ==
    CASE d.t = "string" -> "\"" \o d.v \o "\""
      [] d.t = "object" ->
            LET RECURSIVE members(_)
                members(keys) ==
                    IF keys = {} THEN ""
                    ELSE LET k == CHOOSE x \in keys : TRUE
                         IN  "\"" \o k \o "\":" \o JsonStringify(d.v[k])
                             \o (IF keys = {k} THEN "" ELSE ",")
                             \o members(keys \ {k})
            IN  "{" \o members(DOMAIN d.v) \o "}"
      [] OTHER -> Interpolate(d)

\* the reading of a 2xx body, lines 721-764: success, token and message
ServiceConnectParse(data) ==
    LET
        \* responseStr.match(/[a-zA-Z0-9]{20,}/): the leftmost run of 20 or more,
        \* taken to its end; null when there is none
        TokenMatch(responseStr) ==
            LET
                \* [a-zA-Z0-9]
                IsAlphanumeric(ch) ==
                    Includes("abcdefghijklmnopqrstuvwxyzABCDEFGHIJKLMNOPQRSTUVWXYZ0123456789", ch)
                run(i, k) == \A j \in i..k : IsAlphanumeric(SubSeq(responseStr, j, j))
                starts == {i \in 1..(Len(responseStr) - 19) : run(i, i + 19)}
            IN  IF starts = {} THEN JNull
                ELSE LET i == CHOOSE x \in starts : \A y \in starts : x <= y
                         k == CHOOSE x \in (i + 19)..Len(responseStr) :
                                  /\ run(i, x)
                                  /\ \A y \in (i + 19)..Len(responseStr) : run(i, y) => y <= x
                     IN  JStr(SubSeq(responseStr, i, k))
        message == OrElse(Property(data, "message"), JStr("Connected successfully"))
    IN  IF ~Truthy(data)
        THEN [success |-> JBool(FALSE), token |-> JNull,
              message |-> JStr("Connected successfully")]
        ELSE IF Truthy(Property(data, "token"))
        THEN [success |-> JBool(TRUE), token |-> Property(data, "token"),
              message |-> message]
        ELSE IF IsLongString(data)
        THEN [success |-> JBool(TRUE), token |-> data, message |-> message]
        ELSE IF Property(data, "success") # JUndefined
        THEN [success |-> Property(data, "success"), token |-> JNull,
              message |-> message]
        ELSE IF Truthy(Property(data, "error"))
        THEN [success |-> JBool(FALSE), token |-> JNull,
              message |-> OrElse(Property(data, "message"), Property(data, "error"))]
        ELSE [success |-> JBool(TRUE), token |-> TokenMatch(JsonStringify(data)),
              message |-> message]

\* await axios.get(url, {timeout, headers, validateStatus}) of the method
\* cr.i, lines 702-710
TryMethod(cr) ==
    LET method == authMethods(cr.args)[cr.i]
    IN  [cr EXCEPT !.reqs = Append(@, [path |-> "/ConnectEx",
                                       params |-> method.params,
                                       headers |-> method.headers,
                                       seen |-> cr.answers]),
                   !.pc = "ConnectEx"]

\* the next turn of the for loop of line 696, or lines 780-856 after it
NextMethod(cr) ==
    LET
        \* the reason returned when no method worked, lines 784-850; an error with
        \* status 0 has no response (its request was made), and the statusText of
        \* an error response is empty
        ServiceFailureMessage(lastError) ==
            IF lastError = None
            THEN "Failed to connect to MT5 API with any authentication method"
            ELSE IF lastError.status # 0
            THEN CASE lastError.status = 400 ->
                        "Invalid request format. Please check your account credentials and try again."
                   [] lastError.status = 401 ->
                        "Authentication failed. Please verify your MT5 API key and account credentials. The API key may be invalid or expired."
                   [] lastError.status = 403 ->
                        "Access forbidden. Your MT5 API key may not have the required permissions."
                   [] lastError.status = 404 ->
                        "MT5 API endpoint not found. Please check the API URL configuration."
                   [] lastError.status = 422 ->
                        "Invalid account credentials. Please check your account number, password, and server name."
                   [] lastError.status = 429 ->
                        "Too many requests. Please wait a moment and try again."
                   [] lastError.status = 500 -> "MT5 API server error. Please try again later."
                   [] lastError.status = 503 ->
                        "MT5 API service unavailable. Please try again later."
                   [] OTHER -> "MT5 API error: " \o IntToString(lastError.status) \o " - "
            ELSE "No response from MT5 API. Please check your internet connection and API URL configuration."
    IN
    IF cr.i < Len(authMethods(cr.args))
    THEN TryMethod([cr EXCEPT !.i = @ + 1])
    ELSE Return(cr, [success |-> FALSE, token |-> JNull,
                     message |-> JStr(ServiceFailureMessage(cr.lastError))])

\* the answers to /ConnectEx: validateStatus resolves every status below
\* 500, a status from 500 on and a failure of the transport reject
ServiceConnectAnswers ==
    {Resolved(st, b) :
        st \in {200, 401},
        b \in { JStr(TokenA), JStr("short"), JNull, JNum(7001),
                JObj([token |-> JStr(TokenA)]),
                JObj([success |-> JBool(TRUE), message |-> JStr("Welcome")]),
                JObj([error |-> JStr("INVALID_PASSWORD")]),
                JObj([id |-> JStr("abcdefghij0123456789xyz")]) }}
    \cup {HttpError(500), HttpError(502)} \cup TransportErrors

mt5ApiService_connect(c, credentials) ==
    /\ Idle(c)
    /\ LET cr == NewCall("mt5ApiService.connect", credentials)
       IN  call' = [call EXCEPT ![c] =
               IF apiKey = ""
               THEN Return(cr, [success |-> FALSE, token |-> JNull,
                                message |-> JStr("MT5 API key is not configured. Please check your environment variables.")])
               ELSE IF \/ credentials.accountNumber = "" \/ credentials.password = ""
                       \/ credentials.serverName = ""
               THEN Return(cr, [success |-> FALSE, token |-> JNull,
                                message |-> JStr("Missing required credentials. Please provide account number, password, and server name.")])
               ELSE TryMethod([cr EXCEPT !.i = 1])]
    /\ UNCHANGED <<token, stored, apiKey, mt5Token, storePositions>>

mt5ApiService_connectAnswered(c, r) ==
    /\ At(c, "mt5ApiService.connect", "ConnectEx")
    /\ LET cr == Resume(call[c], r)
           parsed == ServiceConnectParse(r.data)
           worked == /\ r.kind = "ok" /\ r.status >= 200 /\ r.status < 300
                     /\ Truthy(parsed.success) /\ Truthy(parsed.token)
       IN  /\ mt5Token' = (IF worked THEN parsed.token ELSE mt5Token)
           /\ call' = [call EXCEPT ![c] =
                  IF worked
                  THEN Return(cr, [success |-> TRUE, token |-> parsed.token,
                                   message |-> parsed.message])
                  ELSE IF r.kind = "error"
                  THEN NextMethod([cr EXCEPT !.lastError = r])
                  ELSE NextMethod(cr)]
    /\ UNCHANGED <<token, stored, apiKey, storePositions>>

\* disconnect: () => { mt5Token = null }
mt5ApiService_disconnect(c) ==
    /\ Idle(c)
    /\ mt5Token' = JNull
    /\ call' = [call EXCEPT ![c] = Return(NewCall("mt5ApiService.disconnect", None), None)]
    /\ UNCHANGED <<token, stored, apiKey, storePositions>>

ServiceNext ==
    \E c \in SequentialSlots :
        \* credentials with and without a password
        \/ \E cred \in Credentials \cup
                  {[accountNumber |-> "5012345", password |-> "",
                    serverName |-> "Demo-Server"]} :
               mt5ApiService_connect(c, cred)
        \/ \E r \in ServiceConnectAnswers : mt5ApiService_connectAnswered(c, r)
        \/ mt5ApiService_disconnect(c)

ServiceSpec == ConfigInit /\ [][ServiceNext]_vars

(***************************************************************************)
(* C33: the object-style connect and transport failures                    *)
(***************************************************************************)

\* the call in the slot is a connect of the object-style service
ServiceConnecting(cr) == cr.op = "mt5ApiService.connect"

\* the call has returned the reason for a network failure
NetworkFailureReturned(cr) ==
    /\ cr.pc = "done" /\ cr.res.kind = "return"
    /\ cr.res.value.success = FALSE
    /\ cr.res.value.message =
           JStr("No response from MT5 API. Please check your internet connection and API URL configuration.")

\* C33 as stated: the connect of the object-style service does not retry:
\* a call issues at most one /ConnectEx request, and once that request has
\* failed at the transport level the call has returned a network-failure
\* reason.
C33_ServiceConnectNeverRetries ==
    \A c \in Slots :
        ServiceConnecting(call[c])
        => /\ Len(call[c].reqs) <= 1
           /\ call[c].last \in TransportErrors => NetworkFailureReturned(call[c])

\* C33, amended: the connect of the object-style service tries its four
\* authentication methods in order, one /ConnectEx request each and four
\* at most; when a request other than the fourth fails at the transport
\* level the next method's request is issued, and when the fourth does the
\* call returns the network-failure reason with mt5Token unchanged by it.
C33_ServiceConnectTriesFourMethods ==
    \A c \in Slots :
        LET cr == call[c]
        IN  ServiceConnecting(cr)
            => /\ Len(cr.reqs) <= 4
               /\ \A k \in 1..Len(cr.reqs) :
                      /\ cr.reqs[k].path = "/ConnectEx"
                      /\ cr.reqs[k].params = authMethods(cr.args)[k].params
                      /\ cr.reqs[k].headers = authMethods(cr.args)[k].headers
               /\ (cr.last \in TransportErrors /\ cr.answers < 4)
                  => cr.pc = "ConnectEx" /\ Len(cr.reqs) = cr.answers + 1
               /\ (cr.last \in TransportErrors /\ cr.answers = 4)
                  => NetworkFailureReturned(cr)

\* a connect whose four requests all failed at the transport level and
\* which returned the network-failure reason
C33_Witness ==
    \E c \in Slots :
        /\ ServiceConnecting(call[c])
        /\ Len(call[c].reqs) = 4 /\ call[c].answers = 4
        /\ call[c].last \in TransportErrors
        /\ NetworkFailureReturned(call[c])

(***************************************************************************)
(* C34: the entry guard                                                    *)
(***************************************************************************)

\* the operations that test the token before anything else
GuardedOperations ==
    {"getPositions", "getSymbols", "getQuote", "getAccountInfo", "sendOrder",
     "closePosition", "checkConnection"}

\* what an operation returns when it is not connected
NotConnectedResult(op) ==
    CASE op \in {"getPositions", "getSymbols"} -> <<>>
      [] op \in {"getQuote", "getAccountInfo"} -> None
      [] op = "sendOrder" -> SendFailure("Not connected to MT5")
      [] op = "closePosition" -> NotConnected
      [] op = "checkConnection" -> FALSE

\* the call in the slot returned its not-connected result without a request
ReturnedNotConnected(cr) ==
    /\ cr.pc = "done" /\ cr.reqs = <<>> /\ cr.res.kind = "return"
    /\ cr.res.value = NotConnectedResult(cr.op)

\* C34: a call of getPositions, getSymbols, getQuote, getAccountInfo,
\* sendOrder, closePosition or checkConnection that starts while no token is
\* held returns its not-connected result ([] / null / retcode 10004 'Not
\* connected to MT5' / false) in the same step, issues no request and
\* leaves the token and the store as they are.
C34_EntryGuard ==
    [][\A c \in Slots :
          ( /\ Idle(c) /\ ~Truthy(token) /\ call'[c] # call[c]
            /\ call'[c].op \in GuardedOperations )
          => /\ ReturnedNotConnected(call'[c])
             /\ token' = token /\ stored' = stored]_vars

\* a closePosition that returned 'Not connected to MT5' with no request
\* issued, no token being held
C34_Witness ==
    \E c \in Slots :
        /\ ~Truthy(token)
        /\ call[c].op = "closePosition" /\ ReturnedNotConnected(call[c])

(***************************************************************************)
(* C35: findMatchingSymbol returns a symbol of the broker's list           *)
(***************************************************************************)

\* a getQuote or sendOrder call whose findMatchingSymbol has just returned:
\* the answer to /SymbolList is the only answer so far
Matched(cr) == cr.op \in {"getQuote", "sendOrder"} /\ cr.answers = 1

\* findMatchingSymbol returned a symbol: the caller subscribes to it
ReturnedSymbol(cr) == cr.pc = "Subscribe"

\* the symbol x is in the list of the answer r: an item of the array, or a
\* piece of the comma or newline separated text
Published(r, x) ==
    /\ r.kind = "ok" /\ r.data.t \in {"array", "string"}
    /\ IF r.data.t = "array"
       THEN \E j \in 1..Len(r.data.v) : r.data.v[j] = JStr(x)
       ELSE /\ x # "" /\ Includes(r.data.v, x)
            /\ ~Includes(x, ",") /\ ~Includes(x, "\n")
            /\ SubSeq(x, 1, 1) # " " /\ SubSeq(x, Len(x), Len(x)) # " "

\* the answer r gives no list or an empty one
NothingPublished(r) ==
    \/ r.kind = "error"
    \/ r.data.t \notin {"array", "string"}
    \/ r.data.t = "array" /\ Len(r.data.v) = 0
    \/ r.data.t = "string" /\ r.data.v = ""

\* C35: whatever findMatchingSymbol returns is none or a symbol of the list
\* the bridge returned for that call, and it returns none (the caller goes
\* on with the symbol it was given) when the list is empty or fetching it
\* fails.
C35_MatchIsPublished ==
    \A c \in Slots :
        LET cr == call[c]
        IN  Matched(cr)
            => /\ ReturnedSymbol(cr)
                  => /\ Published(cr.last, cr.reqs[2].params.symbol)
                     /\ cr.actualSymbol = cr.reqs[2].params.symbol
               /\ NothingPublished(cr.last)
                  => /\ ~ReturnedSymbol(cr)
                     /\ cr.reqs[2].params.symbol = cr.args.symbol

\* a call for a symbol the broker does not list under that name, matched
\* to another symbol of the list
C35_Witness ==
    \E c \in Slots :
        /\ Matched(call[c]) /\ ReturnedSymbol(call[c])
        /\ call[c].reqs[2].params.symbol # call[c].args.symbol
        /\ Published(call[c].last, call[c].reqs[2].params.symbol)

(***************************************************************************)
(* Calls that overlap a change of session: the bridge operations run in    *)
(* one slot while connect and disconnect run in the other                  *)
(***************************************************************************)

ReloginNext ==
    \/ \E c \in SequentialSlots :
        \/ getPositions(c)
        \/ \E r \in {Resolved(200, JArr(<<>>)), HttpError(401), HttpError(500)} :
               getPositionsAnswered(c, r)
        \/ \E req \in {x \in OrderRequests : x.symbol = "BTCUSD"} : sendOrder(c, req)
        \/ \E r \in {Resolved(200, JArr(<<JStr("BTCUSD")>>)), HttpError(401)} :
               sendOrderResolved(c, r)
        \/ \E r \in {Resolved(200, JBool(TRUE)), HttpError(500)} :
               sendOrderSubscribed(c, r)
        \/ \E r \in {Resolved(200, JNum(12345)), HttpError(401)} :
               sendOrderAnswered(c, r)
    \/ \E c \in Slots \ SequentialSlots :
        \/ \E cred \in Credentials : connect(c, cred)
        \/ \E r \in {Resolved(200, JStr(TokenA)), Resolved(200, JNum(7001)),
                     HttpError(500)} :
               connectAnswered(c, r)

\* a re-login while a read or a write is in flight
ReloginSpec == Init /\ [][ReloginNext]_vars

OverlapNext ==
    \/ \E c \in SequentialSlots :
        \/ closePosition(c, 1, None)
        \/ \E r \in { Resolved(200, JArr(<<Order(1, "Buy", Vol(0, 10000000),
                                                 Vol(0, 10000000), 5)>>)),
                       HttpError(500) } :
               closePositionFetched(c, r)
        \/ \E r \in { Resolved(200, JObj([retcode |-> JNum(10009)])),
                       Resolved(200, JObj([retcode |-> JNum(10013),
                                           comment |-> JStr("invalid volume")])) } :
               closePositionAttempted(c, r)
        \/ \E req \in {x \in OrderRequests : x.symbol = "BTCUSD"} : sendOrder(c, req)
        \/ \E r \in {Resolved(200, JArr(<<JStr("BTCUSD")>>)), HttpError(500)} :
               sendOrderResolved(c, r)
        \/ \E r \in {Resolved(200, JBool(TRUE)), HttpError(500)} :
               sendOrderSubscribed(c, r)
        \/ \E r \in {Resolved(200, JNum(12345)), HttpError(500)} :
               sendOrderAnswered(c, r)
    \/ \E c \in Slots \ SequentialSlots :
        \/ \E cred \in Credentials : connect(c, cred)
        \/ \E r \in {Resolved(200, JStr(TokenA)), HttpError(500)} :
               connectAnswered(c, r)
        \/ disconnect(c)
        \/ \E r \in {Resolved(200, JBool(TRUE)), HttpError(500)} :
               disconnectAnswered(c, r)

\* a disconnect while a write is in flight
OverlapSpec == Init /\ [][OverlapNext]_vars

\* the request the call in the slot is waiting for
Pending(cr) == cr.reqs[Len(cr.reqs)]

\* this step hands the call an HTTP 401 for a request that carried a token
\* other than the one held now
StaleRequestRefused(c) ==
    /\ call[c].op \in BridgeOperations /\ call[c].pc # "done"
    /\ call'[c].answers = call[c].answers + 1
    /\ call'[c].last.kind = "error" /\ call'[c].last.status = 401
    /\ Truthy(token) /\ Pending(call[c]).params.id # token

\* C36: an HTTP 401 reported for a request that carried an earlier token
\* T1, after connect has stored a new token T2, leaves T2 in memory and in
\* the store: the token is cleared only for a failure of a request that
\* carried the token held now.
C36_StaleFailureKeepsToken ==
    [][\A c \in Slots :
          StaleRequestRefused(c) => token' = token /\ stored' = stored]_vars

\* the call is a sendOrder or closePosition in progress that has not
\* cleared the token itself, and no token is held: a disconnect cleared it
SessionLost(c) ==
    /\ call[c].op \in WriteOperations /\ call[c].pc # "done"
    /\ call[c].clearedAt < 0
    /\ ~Truthy(token)

\* C37: once a disconnect has cleared the token while a closePosition or a
\* sendOrder is suspended at a network call, that call issues no further
\* /OrderClose or /OrderSend request, and none whose id is null.
C37_DisconnectStopsWrites ==
    [][\A c \in Slots :
          (SessionLost(c) /\ Len(call'[c].reqs) > Len(call[c].reqs))
          => Pending(call'[c]).path \notin {"/OrderClose", "/OrderSend"}]_vars

(***************************************************************************)
(* closePosition to its end, every request being answered in the end: the  *)
(* position has lots 2 and raw volume 3, the caller passes no volume or 7  *)
(***************************************************************************)

ProbeNext ==
    \E c \in SequentialSlots :
        \/ \E v \in {None, Vol(7, 0)} : closePosition(c, 1, v)
        \/ \E r \in { Resolved(200, JArr(<<Order(1, "Buy", Vol(2, 0), Vol(3, 0), 5)>>)),
                       Resolved(200, JArr(<<>>)), HttpError(500) } :
               closePositionFetched(c, r)
        \/ \E r \in { Resolved(200, JObj([retcode |-> JNum(10009)])),
                       Resolved(200, JObj([retcode |-> JNum(10013),
                                           comment |-> JStr("invalid volume")])),
                       HttpError(500),
                       Rejected(0, "ECONNABORTED", "timeout of 30000ms exceeded") } :
               closePositionAttempted(c, r)

\* each request of the call is answered, fails or times out in the end
ProbeFairness ==
    \A c \in SequentialSlots :
        /\ WF_vars(\E r \in { Resolved(200, JArr(<<Order(1, "Buy", Vol(2, 0),
                                                         Vol(3, 0), 5)>>)),
                               Resolved(200, JArr(<<>>)), HttpError(500) } :
                       closePositionFetched(c, r))
        /\ WF_vars(\E r \in { Resolved(200, JObj([retcode |-> JNum(10009)])),
                               Resolved(200, JObj([retcode |-> JNum(10013),
                                                   comment |-> JStr("invalid volume")])),
                               HttpError(500),
                               Rejected(0, "ECONNABORTED",
                                        "timeout of 30000ms exceeded") } :
                       closePositionAttempted(c, r))

ProbeSpec == Init /\ [][ProbeNext]_vars /\ ProbeFairness

(***************************************************************************)
(* C38: closePosition terminates                                           *)
(***************************************************************************)

\* the requests of the call for the positions
FetchRequests(cr) == {j \in 1..Len(cr.reqs) : cr.reqs[j].path = "/OpenedOrders"}

\* the call stays within one fetch and 19 attempts and repeats no volume
ProbeBounded(cr) ==
    /\ Cardinality(FetchRequests(cr)) <= 1
    /\ Cardinality(CloseRequests(cr)) <= 19
    /\ \A j, k \in CloseRequests(cr) :
           j < k => ~Near(cr.reqs[j].params.lots, cr.reqs[k].params.lots)

\* C38: every closePosition call issues at most one positions fetch and at
\* most 19 /OrderClose requests, no two of them with the same volume, and,
\* each of its requests being answered in the end, returns an outcome.
C38_CloseTerminates ==
    /\ [](\A c \in Slots : call[c].op = "closePosition" => ProbeBounded(call[c]))
    /\ \A c \in Slots :
           (call[c].op = "closePosition" /\ call[c].pc # "done")
           ~> (call[c].op = "closePosition" /\ call[c].pc = "done"
               /\ call[c].res.kind = "return" /\ call[c].res.value.retcode \in Nat)

\* a call that fetched the positions once, tried 19 volumes, each refused,
\* and returned Failure
C38_Witness ==
    \E c \in Slots :
        /\ call[c].op = "closePosition" /\ call[c].pc = "done"
        /\ Cardinality(FetchRequests(call[c])) = 1
        /\ Cardinality(CloseRequests(call[c])) = 19
        /\ Returned(call[c], RetFailure)

(***************************************************************************)
(* The trading store of src/lib/supabase.ts on the object-style service:   *)
(* closePosition(ticket), lines 896-967, with verifyPositionExists,        *)
(* fetchPositions, forceRefreshPositions and refreshAfterTrade             *)
(***************************************************************************)

\* mt5ApiService.getPositions once its request was answered with r, lines
\* 957-1000 of mt5ApiService.ts; r is None when no token was held and no
\* request went out
ServicePositions(r) ==
    IF r = None
    THEN [threw |-> TRUE, message |-> "Not connected to MT5 API", value |-> <<>>]
    ELSE IF r.kind = "error"
    THEN [threw |-> TRUE, value |-> <<>>,
          message |-> IF r.status = 401
                      THEN "Authentication failed. Please reconnect your MT5 account."
                      ELSE r.message]
    ELSE IF r.data.t # "array"
    THEN [threw |-> TRUE, message |-> "response.data.map is not a function",
          value |-> <<>>]
    ELSE [threw |-> FALSE, message |-> "",
          value |-> [j \in 1..Len(r.data.v) |->
                        [ticket |-> Property(r.data.v[j], "ticket"),
                         symbol |-> Property(r.data.v[j], "symbol"),
                         volume |-> Property(r.data.v[j], "volume"),
                         profit |-> Property(r.data.v[j], "profit")]]]

\* what mt5ApiService.closePosition returns once /OrderClose was answered
\* with r, lines 1191-1250 of mt5ApiService.ts; None: no token was held
ServiceCloseResult(r, ticket) ==
    IF r = None
    THEN [success |-> FALSE, retcode |-> RetFailure,
          message |-> JStr("Not connected to MT5 API")]
    ELSE IF r.kind = "ok"
    THEN [success |-> TRUE, retcode |-> RetSuccess,
          message |-> JStr("Position " \o IntToString(ticket) \o " closed successfully")]
    ELSE IF r.status = 0
    THEN [success |-> FALSE, retcode |-> RetFailure,
          message |-> JStr(IF r.message # "" THEN r.message ELSE "Unknown error")]
    ELSE IF /\ r.data.t = "string"
            /\ \/ Includes(r.data.v, "position not found")
               \/ Includes(r.data.v, "already closed")
               \/ Includes(r.data.v, "POSITION_NOT_EXISTS")
    THEN [success |-> TRUE, retcode |-> RetSuccess,
          message |-> JStr("Position " \o IntToString(ticket) \o " was already closed")]
    ELSE [success |-> FALSE, retcode |-> RetFailure, message |-> r.data]

\* toast.success(text) and toast.error(text)
Toast(cr, kind, text) == [cr EXCEPT !.toasts = Append(@, [kind |-> kind, text |-> text])]

\* forceRefreshPositions() or refreshAfterTrade() up to its await: the
\* positions request of fetchPositions goes out when a token is held, and
\* the refresh of the account runs beside it
Refresh(cr, pc, willReturn, tok) ==
    LET waiting == [cr EXCEPT !.pc = pc, !.willReturn = willReturn]
    IN  IF Truthy(tok)
        THEN Get(waiting, "/Positions", [id |-> tok], pc)
        ELSE waiting

\* lines 896-923: the ticket leaves the cache, and verifyPositionExists
\* asks for the positions; without a token getPositions throws at once,
\* verifyPositionExists returns false and the position is reported closed
useTradingStore_closePosition(c, ticket) ==
    /\ Idle(c)
    /\ LET cr == NewCall("useTradingStore.closePosition", [ticket |-> ticket])
       IN  IF Truthy(mt5Token)
           THEN /\ call' = [call EXCEPT ![c] =
                               Get(cr, "/Positions", [id |-> mt5Token], "verify")]
                /\ storePositions' = SelectSeq(storePositions, LAMBDA t : t # ticket)
           ELSE /\ call' = [call EXCEPT ![c] =
                               Refresh(Toast(cr, "success",
                                             "Position " \o IntToString(ticket)
                                             \o " is already closed"),
                                       "forceRefresh", TRUE, mt5Token)]
                /\ storePositions' = <<>>
    /\ UNCHANGED <<token, stored, apiKey, mt5Token>>

\* verifyPositionExists returns, lines 273-284, and closePosition goes on,
\* lines 906-917, into mt5ApiService.closePosition, lines 1149-1161
useTradingStore_verified(c, r) ==
    /\ At(c, "useTradingStore.closePosition", "verify")
    /\ LET out == ServicePositions(r)
           ticket == call[c].args.ticket
           positionExists ==
               /\ ~out.threw
               /\ \E j \in 1..Len(out.value) : StrictEqNum(out.value[j].ticket, ticket)
           cr == [Resume(call[c], r) EXCEPT !.fetched = ~out.threw,
                                            !.positions = out.value]
           result == ServiceCloseResult(None, ticket)
       IN  IF ~positionExists
           THEN /\ call' = [call EXCEPT ![c] =
                               Refresh(Toast(cr, "success",
                                             "Position " \o IntToString(ticket)
                                             \o " is already closed"),
                                       "forceRefresh", TRUE, mt5Token)]
                /\ storePositions' = <<>>
           ELSE IF Truthy(mt5Token)
           THEN /\ call' = [call EXCEPT ![c] =
                               Get(cr, "/Positions", [id |-> mt5Token], "closeFetch")]
                /\ UNCHANGED storePositions
           ELSE /\ call' = [call EXCEPT ![c] =
                               Refresh(Toast([cr EXCEPT !.result = result], "error",
                                             "Failed to close position "
                                             \o IntToString(ticket) \o ": "
                                             \o result.message.v),
                                       "forceRefresh", FALSE, mt5Token)]
                /\ storePositions' = <<>>
    /\ UNCHANGED <<token, stored, apiKey, mt5Token>>

\* the positions of mt5ApiService.closePosition are in, or not: the
\* /OrderClose request goes out, lines 1162-1189
useTradingStore_closeFetched(c, r) ==
    /\ At(c, "useTradingStore.closePosition", "closeFetch")
    /\ call' = [call EXCEPT ![c] =
                   Get(Resume(@, r), "/OrderClose",
                       [id |-> mt5Token, ticket |-> IntToString(@.args.ticket)],
                       "OrderClose")]
    /\ UNCHANGED <<token, stored, apiKey, mt5Token, storePositions>>

\* mt5ApiService.closePosition returns, and closePosition refreshes, lines
\* 917-931
useTradingStore_closeAnswered(c, r) ==
    /\ At(c, "useTradingStore.closePosition", "OrderClose")
    /\ LET ticket == call[c].args.ticket
           result == ServiceCloseResult(r, ticket)
           cr == [Resume(call[c], r) EXCEPT !.result = result]
           message == IF Truthy(result.message) THEN Interpolate(result.message)
                      ELSE "Unknown error"
       IN  call' = [call EXCEPT ![c] =
               IF result.retcode = 10009
               THEN Refresh(cr, "refreshAfterTrade", TRUE, mt5Token)
               ELSE Refresh(Toast(cr, "error",
                                  "Failed to close position " \o IntToString(ticket)
                                  \o ": " \o message),
                            "forceRefresh", FALSE, mt5Token)]
    /\ storePositions' = <<>>
    /\ UNCHANGED <<token, stored, apiKey, mt5Token>>

\* Promise.all of fetchPositions (lines 131-233, answered with r, None when
\* no request went out) and the account refresh of the auth store (it
\* resolved when accountError is "", and rejected with that message
\* otherwise); then forceRefreshPositions returns and closePosition returns
\* what it set out to, or refreshAfterTrade returns or throws, lines 920-964.
\* The logout of the auth store ends the session or does not.
useTradingStore_refreshed(c, r, accountError, loggedOut) ==
    LET
        \* the catch block of closePosition, lines 933-964, for an error with this
        \* message; tok is the token after the logout, if there was one
        CloseCaught(cr, message, tok) ==
            LET ticket == IntToString(cr.args.ticket)
            IN  IF \/ Includes(message, "position not found")
                   \/ Includes(message, "already closed")
                   \/ Includes(message, "POSITION_NOT_EXISTS")
                THEN Refresh(Toast(cr, "success", "Position " \o ticket \o " was already closed"),
                             "forceRefresh", TRUE, tok)
                ELSE IF \/ Includes(message, "Authentication failed")
                        \/ Includes(message, "Session expired")
                THEN Refresh(Toast(cr, "error", "Session expired. Please login again."),
                             "forceRefresh", FALSE, tok)
                ELSE Refresh(Toast(cr, "error", "Failed to close position " \o ticket
                                                \o ": " \o message),
                             "forceRefresh", FALSE, tok)
    IN
    /\ call[c].op = "useTradingStore.closePosition"
    /\ call[c].pc \in {"forceRefresh", "refreshAfterTrade"}
    /\ (r = None) <=> (Len(call[c].reqs) = call[c].answers)
    /\ LET out == ServicePositions(r)
           valid == {j \in 1..Len(out.value) :
                        /\ out.value[j].ticket.t = "number" /\ out.value[j].ticket.v > 0
                        /\ Truthy(out.value[j].symbol)
                        /\ out.value[j].volume.t = "decimal"
                        /\ IsPositive(out.value[j].volume.v)}
           expired == /\ out.threw
                      /\ \/ Includes(out.message, "Authentication failed")
                         \/ Includes(out.message, "Session expired")
           resumed == IF r = None THEN call[c] ELSE Resume(call[c], r)
           fetched == IF expired
                      THEN Toast(resumed, "error", "Session expired. Please login again.")
                      ELSE resumed
           ticket == IntToString(call[c].args.ticket)
           rethrown == call[c].pc = "refreshAfterTrade" /\ accountError # ""
           caughtAuth == /\ rethrown
                         /\ \/ Includes(accountError, "Authentication failed")
                            \/ Includes(accountError, "Session expired")
       IN  /\ storePositions' =
                  IF rethrown THEN <<>>
                  ELSE IF out.threw THEN storePositions
                  ELSE [k \in 1..Cardinality(valid) |->
                           out.value[CHOOSE j \in valid :
                                        Cardinality({i \in valid : i < j}) = k - 1].ticket.v]
           /\ mt5Token' = (IF (expired \/ caughtAuth) /\ loggedOut THEN JNull ELSE mt5Token)
           /\ call' = [call EXCEPT ![c] =
                  IF call[c].pc = "forceRefresh"
                  THEN Return(Toast(fetched,
                                    IF accountError = "" THEN "success" ELSE "error",
                                    IF accountError = ""
                                    THEN "Positions and account info refreshed"
                                    ELSE "Failed to refresh data"),
                              call[c].willReturn)
                  ELSE IF accountError = ""
                  THEN Return(Toast(fetched, "success",
                                    "Position " \o ticket \o " closed successfully"),
                              TRUE)
                  ELSE CloseCaught(fetched, accountError,
                                   IF (expired \/ caughtAuth) /\ loggedOut
                                   THEN JNull ELSE mt5Token)]
    /\ UNCHANGED <<token, stored, apiKey>>

StoreNext ==
    \E c \in SequentialSlots :
        \/ \E cred \in Credentials : mt5ApiService_connect(c, cred)
        \/ \E r \in {Resolved(200, JStr(TokenA)), Resolved(401, JNull)} :
               mt5ApiService_connectAnswered(c, r)
        \/ mt5ApiService_disconnect(c)
        \/ useTradingStore_closePosition(c, 1)
        \/ \E r \in { Resolved(200, JArr(<<JObj([ticket |-> JNum(1),
                                                  symbol |-> JStr("EURUSD"),
                                                  volume |-> JDec(Vol(0, 10000000)),
                                                  profit |-> JNum(5)])>>)),
                       Resolved(200, JArr(<<>>)), Resolved(200, JNull),
                       HttpError(401), Rejected(0, "ERR_NETWORK", "Network Error") } :
               \/ useTradingStore_verified(c, r)
               \/ useTradingStore_closeFetched(c, r)
               \/ \E accountError \in {"", "Failed to load account", "Session expired"},
                     loggedOut \in BOOLEAN :
                      useTradingStore_refreshed(c, r, accountError, loggedOut)
        \/ \E accountError \in {"", "Failed to load account", "Session expired"},
              loggedOut \in BOOLEAN :
               useTradingStore_refreshed(c, None, accountError, loggedOut)
        \/ \E r \in { Resolved(200, JBool(TRUE)),
                       [kind |-> "error", status |-> 400, code |-> "ERR_BAD_REQUEST",
                        message |-> "Request failed with status code 400",
                        data |-> JStr("position not found")],
                       [kind |-> "error", status |-> 500, code |-> "ERR_BAD_RESPONSE",
                        message |-> "Request failed with status code 500",
                        data |-> JStr("invalid volume")],
                       Rejected(0, "ECONNABORTED", "timeout of 15000ms exceeded") } :
               useTradingStore_closeAnswered(c, r)

StoreSpec == Init /\ [][StoreNext]_vars

(***************************************************************************)
(* C39: the store reports a position closed                                *)
(***************************************************************************)

\* the store's closePosition has returned this value
StoreReturned(cr, value) ==
    /\ cr.op = "useTradingStore.closePosition" /\ cr.pc = "done"
    /\ cr.res.kind = "return" /\ cr.res.value = value

\* the bridge confirmed that the position is closed: a positions fetch that
\* succeeded did not hold the ticket, or the service's closePosition
\* returned retcode 10009
BridgeConfirmed(cr) ==
    \/ /\ cr.fetched
       /\ \A j \in 1..Len(cr.positions) : ~StrictEqNum(cr.positions[j].ticket, cr.args.ticket)
    \/ cr.result # None /\ cr.result.retcode = 10009

\* C39: the store's closePosition(ticket) returns true only if the bridge
\* confirmed it: a positions fetch that succeeded did not contain the
\* ticket, or the service's closePosition returned retcode 10009; a
\* failure to fetch the positions (transport error, missing session) never
\* makes it report the position as already closed.
C39_ClosedOnlyWhenConfirmed ==
    \A c \in Slots :
        StoreReturned(call[c], TRUE) => BridgeConfirmed(call[c])

====
